---- MODULE Spec2Model ----
(***************************************************************************)
(* Verification model of dfelibs: the NumPy-compatible named tuple writer  *)
(* (src/dfe_namedtuple.hpp) and the delimiter-separated-values reader and  *)
(* writer (src/dfe/dfe_io_dsv.hpp).                                        *)
(*                                                                         *)
(* Text and file contents are sequences of byte values (character codes).  *)
(* A std::size_t is kept as its decimal numeral (a sequence of digits,     *)
(* most significant first), because SIZE_MAX exceeds the integers of the   *)
(* model checker; every other number is an integer.                        *)
(***************************************************************************)
EXTENDS Integers, Sequences, FiniteSets, TLC

VARIABLES
  \* ---- NpyNamedtupleWriter, life cycle ----
  Namedtuple,   \* the template argument: the descriptor of the record type
  writers,      \* the writer objects: m_file, m_fixed_header_length, m_num_tuples
  disk,         \* the content of the file at each path
  appended,     \* history: the records written to each path since it was opened
  file_state,   \* history: how each path was last opened or closed
  patches,      \* history: header writes made to each path by a destructor
  npy_event,    \* history: the last operation and what it did
  \* ---- write_header as a function of descriptor, platform and count ----
  hdr_type,     \* the record type, by the name of the struct
  hdr_order,    \* __BYTE_ORDER of the build
  hdr_pc,       \* position in the sequence of header writes
  hdr_codes,    \* result of dtypes_codes
  hdr_fixed,    \* m_fixed_header_length
  hdr_bytes,    \* the header last written
  hdr_sizes,    \* history: the byte length of every header written
  \* ---- DsvWriter and DsvReader ----
  dsv_type,     \* the template argument NamedTuple: the descriptor
  dsv_delim,    \* the template argument Delimiter
  dsv_file,     \* the file at the path: whether it can be opened, its content
  dsv_writer,   \* the DsvWriter object: "none", "open" or "closed"
  dsv_rows,     \* history: the records appended by the writer
  dsv_table,    \* history: the cells of the lines a given file was made of
  dsv_reader,   \* the DsvReader object: whether it exists, and its members
  dsv_args,     \* how the reader is used: verify_header, read with extra
  dsv_record,   \* the caller's record: the values of its listed members
  dsv_struct,   \* the caller's record: every member of the struct, listed or not
  dsv_extra,    \* the caller's vector of extra values
  dsv_call,     \* history: the last call on the reader and what it did
  dsv_got,      \* history: the records delivered by reads that returned true
  \* ---- UntypedDsvWriter ----
  uw_delim,     \* the template argument Delimiter
  uw_file,      \* the file at the path: whether it exists, its content
  uw_writer,    \* the writer object: whether it exists, m_num_columns
  uw_call,      \* history: the last call on the writer and what it did
  uw_rows,      \* history: the arguments of the appends that returned
  \* ---- a reader or writer constructed on a path ----
  io_class,     \* the class constructed
  io_delim,     \* the delimiter of the text classes
  io_openable,  \* whether the path can be opened
  io_file,      \* the file at the path: whether it exists, its content
  io_verify,    \* the verify_header argument of the readers
  io_object,    \* the object: whether it exists, and its members
  io_record,    \* the caller's record
  io_call,      \* history: the last call and what it did
  \* ---- DFE_NAMEDTUPLE and names() ----
  nt_header,    \* the header whose DFE_NAMEDTUPLE is used
  nt_members,   \* the member tokens listed in the declaration
  nt_space,     \* white space of the source before and after the commas
  nt_decl,      \* whether the declaration compiled
  nt_names,     \* the array the last names() returned
  nt_call,      \* history: the calls of names() and what the first returned
  \* ---- Dispatcher and Variable ----
  dp_commands,  \* m_commands: the command registered under each name
  dp_last,      \* history: the last add or call and what it did
  var_value,    \* a Variable: m_type, the union, m_string
  var_last,     \* history: the last operation on the Variable and what it gave
  \* ---- FlatSet, FlatMap, NArray ----
  fs_items,     \* FlatSet::m_items
  fs_last,      \* history: the last operation on the set and what it gave
  fm_keys,      \* FlatMap::m_keys, the m_items of a FlatSet of KeyIndex
  fm_items,     \* FlatMap::m_items
  fm_emplaced,  \* history: the value last emplaced under each key since clear
  fm_last,      \* history: the last operation on the map and what it gave
  na_array,     \* an NArray: m_size and m_data
  na_last       \* history: the last operation on the array and what it gave

npy_vars == <<Namedtuple, writers, disk, appended, file_state, patches, npy_event>>
hdr_vars == <<hdr_type, hdr_order, hdr_pc, hdr_codes, hdr_fixed, hdr_bytes, hdr_sizes>>
dsv_vars == <<dsv_type, dsv_delim, dsv_file, dsv_writer, dsv_rows, dsv_table,
              dsv_reader, dsv_args, dsv_record, dsv_struct, dsv_extra, dsv_call,
              dsv_got>>
uw_vars == <<uw_delim, uw_file, uw_writer, uw_call, uw_rows>>
io_vars == <<io_class, io_delim, io_openable, io_file, io_verify, io_object, io_record,
             io_call>>
nt_vars == <<nt_header, nt_members, nt_space, nt_decl, nt_names, nt_call>>
dp_vars == <<dp_commands, dp_last, var_value, var_last>>
ct_vars == <<fs_items, fs_last, fm_keys, fm_items, fm_emplaced, fm_last, na_array, na_last>>
vars == <<npy_vars, hdr_vars, dsv_vars, uw_vars, io_vars, nt_vars, dp_vars, ct_vars>>

\* the variables of the other components, which an operation leaves alone
npy_rest == <<hdr_vars, dsv_vars, uw_vars, io_vars, nt_vars, dp_vars, ct_vars>>
hdr_rest == <<npy_vars, dsv_vars, uw_vars, io_vars, nt_vars, dp_vars, ct_vars>>
dsv_rest == <<npy_vars, hdr_vars, uw_vars, io_vars, nt_vars, dp_vars, ct_vars>>
uw_rest == <<npy_vars, hdr_vars, dsv_vars, io_vars, nt_vars, dp_vars, ct_vars>>
io_rest == <<npy_vars, hdr_vars, dsv_vars, uw_vars, nt_vars, dp_vars, ct_vars>>
nt_rest == <<npy_vars, hdr_vars, dsv_vars, uw_vars, io_vars, dp_vars, ct_vars>>
dp_rest == <<npy_vars, hdr_vars, dsv_vars, uw_vars, io_vars, nt_vars, ct_vars>>
ct_rest == <<npy_vars, hdr_vars, dsv_vars, uw_vars, io_vars, nt_vars, dp_vars>>

----------------------------------------------------------------------------
(* Bounds of the model *)

MaxAppend == 2       \* records appended to one file
MaxRows == 2         \* records appended to one text file
MaxLines == 2        \* data lines of a given text file
MaxArgs == 3         \* arguments of one append of the untyped writer
MaxCalls == 2        \* append calls on one untyped writer
MaxUses == 2         \* reads or appends on an object constructed on a path
MaxMembers == 3      \* members listed in one DFE_NAMEDTUPLE
MaxNames == 2        \* calls of names() on one named tuple
MaxCallArgs == 2     \* arguments of one call of a command
MaxKey == 3          \* keys of the elements of a FlatSet or FlatMap
MaxPayload == 1      \* what an element holds besides its key
MaxSize == 2         \* small sizes of an NArray along one dimension
MaxWrites == 2       \* elements of an NArray that were assigned to
NDIMENSIONS == 2     \* NArray<float, 2>
LongNameLen == 65460 \* length of the member name of the long descriptor

----------------------------------------------------------------------------
(* std::size_t as a decimal numeral *)

SIZE_MAX == <<1,8,4,4,6,7,4,4,0,7,3,7,0,9,5,5,1,6,1,5>>

Zero == <<0>>

RECURSIVE Increment(_)
\* m_num_tuples += 1, wrapping at SIZE_MAX
Increment(num) ==
  IF num = SIZE_MAX THEN Zero
  ELSE IF Len(num) = 0 THEN <<1>>
  ELSE IF num[Len(num)] < 9
       THEN [num EXCEPT ![Len(num)] = @ + 1]
       ELSE Append(Increment(SubSeq(num, 1, Len(num) - 1)), 0)

RECURSIVE NumeralOf(_)
\* the numeral of a small natural number
NumeralOf(n) == IF n < 10 THEN <<n>> ELSE Append(NumeralOf(n \div 10), n % 10)

\* std::to_string(std::size_t)
to_string(num) == [i \in 1..Len(num) |-> 48 + num[i]]

----------------------------------------------------------------------------
(* namedtuple_impl: the type registry and the dtype description *)

\* the specializations of TypeInfo: kind letter and width digit
TypeInfo ==
  [uint8  |-> <<117, 49>>, uint16 |-> <<117, 50>>,
   uint32 |-> <<117, 52>>, uint64 |-> <<117, 56>>,
   int8   |-> <<105, 49>>, int16  |-> <<105, 50>>,
   int32  |-> <<105, 52>>, int64  |-> <<105, 56>>,
   float  |-> <<102, 52>>, double |-> <<102, 56>>]

\* sizeof of the scalar types a record may hold
SizeOf ==
  [uint8 |-> 1, uint16 |-> 2, uint32 |-> 4, uint64 |-> 8,
   int8  |-> 1, int16  |-> 2, int32  |-> 4, int64  |-> 8,
   float |-> 4, double |-> 8, bool   |-> 1]

\* no dtype code: the expression does not compile
NoCode == <<>>

\* DFE_DTYPE_CODE is defined for little endian only ("<" #c); the big endian
\* branch defines DTYPE_SIGNED_CODE instead, so there the macro is undefined
DFE_DTYPE_CODE(order, c) == IF order = "little" THEN <<60>> \o c ELSE NoCode

\* TypeInfo<T>::dtype_code(); the primary template has no such member
dtype_code(order, T) ==
  IF T \in DOMAIN TypeInfo THEN DFE_DTYPE_CODE(order, TypeInfo[T]) ELSE NoCode

dtypes_codes(order, type) == [i \in 1..Len(type) |-> dtype_code(order, type[i].type)]

RECURSIVE dtypes_fields(_, _, _)
dtypes_fields(order, type, i) ==
  IF i > Len(type) THEN <<>>
  ELSE <<40, 39>> \o type[i].name \o <<39, 44, 32, 39>>
         \o dtypes_codes(order, type)[i] \o <<39, 41>>
         \o (IF i + 1 <= Len(type) THEN <<44, 32>> ELSE <<>>)
         \o dtypes_fields(order, type, i + 1)

\* "[('name', 'code'), ...]"
dtypes_description(order, type) == <<91>> \o dtypes_fields(order, type, 1) \o <<93>>

----------------------------------------------------------------------------
(* NpyNamedtupleWriter::write_header *)

Magic == <<147, 78, 85, 77, 80, 89>>                       \* "\x93NUMPY"
DescrKey == <<39, 100, 101, 115, 99, 114, 39, 58, 32>>     \* "'descr': "
FortranOrder ==                                            \* "'fortran_order': False, "
  <<39, 102, 111, 114, 116, 114, 97, 110, 95, 111, 114, 100, 101, 114, 39, 58, 32,
    70, 97, 108, 115, 101, 44, 32>>
ShapeKey == <<39, 115, 104, 97, 112, 101, 39, 58, 32, 40>> \* "'shape': ("

\* the header before padding
header_text(order, type, num_tuples) ==
  Magic \o <<1, 0>> \o <<175, 254>> \o <<123>>
    \o DescrKey \o dtypes_description(order, type) \o <<44, 32>>
    \o FortranOrder
    \o ShapeKey \o to_string(num_tuples) \o <<44, 41, 44, 32>>
    \o <<125>>

RECURSIVE PadAlign(_)
\* while (((header.size() + 1) % 16) != 0) { header += ' '; }
PadAlign(header) ==
  IF (Len(header) + 1) % 16 # 0 THEN PadAlign(Append(header, 32)) ELSE header

RECURSIVE PadFixed(_, _)
\* while (header.size() < m_fixed_header_length) { header += ' '; }
PadFixed(header, fixed) ==
  IF Len(header) < fixed THEN PadFixed(Append(header, 32), fixed) ELSE header

\* header[8], header[9]: the two low bytes of header.size() - 10
SetLength(header) ==
  LET header_length == Len(header) - 10
  IN [header EXCEPT ![9] = header_length % 256,
                    ![10] = (header_length \div 256) % 256]

\* write_header without the padding up to m_fixed_header_length
write_header_unpadded(order, type, fixed, num_tuples) ==
  LET aligned == PadAlign(header_text(order, type, num_tuples))
  IN [header |-> SetLength(Append(aligned, 10)),
      m_fixed_header_length |-> IF fixed = 0 THEN Len(aligned) ELSE fixed]

\* the bytes write_header writes at offset 0 and the m_fixed_header_length it leaves
write_header(order, type, fixed, num_tuples) ==
  LET aligned == PadAlign(header_text(order, type, num_tuples))
      padded == IF fixed = 0 THEN aligned ELSE PadFixed(aligned, fixed)
  IN [header |-> SetLength(Append(padded, 10)),
      m_fixed_header_length |-> IF fixed = 0 THEN Len(aligned) ELSE fixed]

----------------------------------------------------------------------------
(* std::ofstream on a file: write at the put position *)

\* m_file.write(data, size) at put position pos of a file holding content
StreamWrite(content, pos, data) ==
  SubSeq(content, 1, pos) \o data
    \o SubSeq(content, pos + Len(data) + 1, Len(content))

----------------------------------------------------------------------------
(* The records of the model *)

RECURSIVE NativeBytes(_, _)
\* the object representation of a scalar on a little endian machine
NativeBytes(value, size) ==
  IF size = 0 THEN <<>>
  ELSE <<value % 256>> \o NativeBytes(value \div 256, size - 1)

\* the records a caller appends: field i holds 16 s + i, wider fields also
\* 256 times that, for s in 1..2
SampleValue(s, i, size) ==
  IF size = 1 THEN 16 * s + i ELSE 256 * (16 * s + i) + i
SampleRecords(type) ==
  { [i \in 1..Len(type) |-> SampleValue(s, i, SizeOf[type[i].type])] : s \in 1..2 }

RECURSIVE record_bytes(_, _, _)
record_bytes(type, values, i) ==
  IF i > Len(type) THEN <<>>
  ELSE NativeBytes(values[i], SizeOf[type[i].type]) \o record_bytes(type, values, i + 1)

\* write_record with the fields in reverse order
write_record_reversed(type, values) ==
  LET n == Len(type)
  IN record_bytes([i \in 1..n |-> type[n + 1 - i]], [i \in 1..n |-> values[n + 1 - i]], 1)

\* the bytes write_record writes: each field's object representation, in order
write_record(type, values) == record_bytes(type, values, 1)

RECURSIVE RecordSize(_, _)
RecordSize(type, i) ==
  IF i > Len(type) THEN 0 ELSE SizeOf[type[i].type] + RecordSize(type, i + 1)

----------------------------------------------------------------------------
(* NpyNamedtupleWriter: the objects and their operations *)

\* __BYTE_ORDER of the machine the writers run on
NativeOrder == "little"

Field(name, type) == [name |-> name, type |-> type]

\* the record types the writers are instantiated with
NpyTypes ==
  { <<Field(<<120>>, "int16")>>,                                \* X: x
    <<Field(<<120>>, "int32"), Field(<<121>>, "double")>> }     \* XY: x, y

\* the writer objects; each is constructed on the path of its own name
Writers == {"a", "b"}
Paths == Writers

Unborn ==
  [life |-> "unborn", is_open |-> FALSE, path |-> "none", pos |-> 0,
   m_fixed_header_length |-> 0, m_num_tuples |-> Zero]

\* NpyNamedtupleWriter(path): open with truncation, then the two header writes
Constructor(type, path, files) ==
  LET first == write_header(NativeOrder, type, 0, SIZE_MAX)
      c1 == StreamWrite(<<>>, 0, first.header)
      second == write_header(NativeOrder, type, first.m_fixed_header_length, Zero)
      c2 == StreamWrite(c1, 0, second.header)
  IN [self |-> [life |-> "live", is_open |-> TRUE, path |-> path,
                pos |-> Len(second.header),
                m_fixed_header_length |-> second.m_fixed_header_length,
                m_num_tuples |-> Zero],
      files |-> [files EXCEPT ![path] = c2]]

\* append that also brings the header up to date
append_patching(type, self, files, values) ==
  LET data == write_record(type, values)
      count == Increment(self.m_num_tuples)
      written == StreamWrite(files[self.path], self.pos, data)
      header == write_header(NativeOrder, type, self.m_fixed_header_length, count).header
  IN [self |-> [self EXCEPT !.pos = @ + Len(data), !.m_num_tuples = count],
      files |-> [files EXCEPT ![self.path] = StreamWrite(written, 0, header)]]

\* append on an open writer: write_record at the put position, then count
append(type, self, files, values) ==
  LET data == write_record(type, values)
  IN [self |-> [self EXCEPT !.pos = @ + Len(data),
                            !.m_num_tuples = Increment(@)],
      files |-> [files EXCEPT ![self.path] = StreamWrite(@, self.pos, data)]]

\* the destructor without the is_open test: the write on a closed stream fails
\* and, with the exception mask set, throws
destructor_unguarded(type, self, files) ==
  IF ~self.is_open
  THEN [files |-> files, header_writes |-> 0, raised |-> TRUE]
  ELSE [files |-> [files EXCEPT ![self.path] =
                     StreamWrite(@, 0, write_header(NativeOrder, type,
                       self.m_fixed_header_length, self.m_num_tuples).header)],
        header_writes |-> 1, raised |-> FALSE]

\* the destructor writing the header without the final count
destructor_stale(type, self, files) ==
  IF ~self.is_open
  THEN [files |-> files, header_writes |-> 0, raised |-> FALSE]
  ELSE [files |-> [files EXCEPT ![self.path] =
                     StreamWrite(@, 0, write_header(NativeOrder, type,
                       self.m_fixed_header_length, Zero).header)],
        header_writes |-> 1, raised |-> FALSE]

\* ~NpyNamedtupleWriter(): nothing when the file is not open, else the header
\* with the final count at offset 0, then close
destructor(type, self, files) ==
  IF ~self.is_open
  THEN [files |-> files, header_writes |-> 0, raised |-> FALSE]
  ELSE [files |-> [files EXCEPT ![self.path] =
                     StreamWrite(@, 0, write_header(NativeOrder, type,
                       self.m_fixed_header_length, self.m_num_tuples).header)],
        header_writes |-> 1, raised |-> FALSE]

Event(op, w, header_writes, raised) ==
  [op |-> op, writer |-> w, header_writes |-> header_writes, raised |-> raised]

NpyInit ==
  /\ Namedtuple \in NpyTypes
  /\ writers = [w \in Writers |-> Unborn]
  /\ disk = [p \in Paths |-> <<>>]
  /\ appended = [p \in Paths |-> <<>>]
  /\ file_state = [p \in Paths |-> "absent"]
  /\ patches = [p \in Paths |-> 0]
  /\ npy_event = Event("none", "none", 0, FALSE)

\* NpyNamedtupleWriter<Namedtuple> w(path)
NpyConstruct(w) ==
  /\ writers[w].life = "unborn"
  /\ file_state[w] = "absent"
  /\ LET r == Constructor(Namedtuple, w, disk)
     IN /\ writers' = [writers EXCEPT ![w] = r.self]
        /\ disk' = r.files
  /\ appended' = [appended EXCEPT ![w] = <<>>]
  /\ file_state' = [file_state EXCEPT ![w] = "open"]
  /\ npy_event' = Event("construct", w, 2, FALSE)
  /\ UNCHANGED <<Namedtuple, patches>>
  /\ UNCHANGED npy_rest

\* w.append(record) on a writer whose file is open
NpyAppend(w, values) ==
  /\ writers[w].life = "live"
  /\ writers[w].is_open
  /\ Len(appended[writers[w].path]) < MaxAppend
  /\ LET r == append(Namedtuple, writers[w], disk, values)
     IN /\ writers' = [writers EXCEPT ![w] = r.self]
        /\ disk' = r.files
  /\ appended' = [appended EXCEPT ![writers[w].path] = Append(@, values)]
  /\ npy_event' = Event("append", w, 0, FALSE)
  /\ UNCHANGED <<Namedtuple, file_state, patches>>
  /\ UNCHANGED npy_rest

\* w.append(record) on a moved-from writer: its file buffer is closed, so no
\* byte reaches a file; whether the stream throws is left open by the
\* standard (a moved-from stream is in a valid but unspecified state), and
\* the counter is incremented only when it does not
NpyAppendClosed(w, throws) ==
  /\ writers[w].life = "live"
  /\ ~writers[w].is_open
  /\ writers[w].m_num_tuples # NumeralOf(MaxAppend)
  /\ writers' = [writers EXCEPT ![w].m_num_tuples =
                   IF throws THEN @ ELSE Increment(@)]
  /\ npy_event' = Event("append", w, 0, throws)
  /\ UNCHANGED <<Namedtuple, disk, appended, file_state, patches>>
  /\ UNCHANGED npy_rest

\* NpyNamedtupleWriter<Namedtuple> to(std::move(from))
NpyMoveConstruct(to, from) ==
  /\ writers[to].life = "unborn"
  /\ writers[from].life = "live"
  /\ writers' = [writers EXCEPT
                   ![to] = writers[from],
                   ![from] = [@ EXCEPT !.is_open = FALSE, !.path = "none"]]
  /\ npy_event' = Event("move", to, 0, FALSE)
  /\ UNCHANGED <<Namedtuple, disk, appended, file_state, patches>>
  /\ UNCHANGED npy_rest

\* to = std::move(from): the file stream of to closes the file it holds,
\* without a header write, and takes over the file of from
NpyMoveAssign(to, from) ==
  /\ to # from
  /\ writers[to].life = "live"
  /\ writers[from].life = "live"
  /\ writers' = [writers EXCEPT
                   ![to] = writers[from],
                   ![from] = [@ EXCEPT !.is_open = FALSE, !.path = "none"]]
  /\ file_state' = IF writers[to].is_open
                   THEN [file_state EXCEPT ![writers[to].path] = "closed_by_move"]
                   ELSE file_state
  /\ npy_event' = Event("move_assign", to, 0, FALSE)
  /\ UNCHANGED <<Namedtuple, disk, appended, patches>>
  /\ UNCHANGED npy_rest

\* the writer goes out of scope
NpyDestroy(w) ==
  /\ writers[w].life = "live"
  /\ LET r == destructor(Namedtuple, writers[w], disk)
     IN /\ disk' = r.files
        /\ npy_event' = Event("destroy", w, r.header_writes, r.raised)
        /\ patches' = IF writers[w].is_open
                      THEN [patches EXCEPT ![writers[w].path] = @ + r.header_writes]
                      ELSE patches
  /\ writers' = [writers EXCEPT ![w] = [@ EXCEPT !.life = "gone", !.is_open = FALSE]]
  /\ file_state' = IF writers[w].is_open
                   THEN [file_state EXCEPT ![writers[w].path] = "closed_by_destructor"]
                   ELSE file_state
  /\ UNCHANGED <<Namedtuple, appended>>
  /\ UNCHANGED npy_rest

NpyNext ==
  \/ \E w \in Writers : NpyConstruct(w)
  \/ \E w \in Writers : \E values \in SampleRecords(Namedtuple) : NpyAppend(w, values)
  \/ \E w \in Writers : \E throws \in BOOLEAN : NpyAppendClosed(w, throws)
  \/ \E to \in Writers : \E from \in Writers : NpyMoveConstruct(to, from)
  \/ \E to \in Writers : \E from \in Writers : NpyMoveAssign(to, from)
  \/ \E w \in Writers : NpyDestroy(w)

----------------------------------------------------------------------------
(* write_header over descriptors, platforms and counts: the sequence of     *)
(* header writes one writer makes (SIZE_MAX, 0, the final count), started   *)
(* from any descriptor and any final count                                  *)

ScalarTypes == DOMAIN SizeOf
Orders == {"little", "big"}

\* a record type with one member whose name is LongNameLen characters long
LongType == <<Field([i \in 1..LongNameLen |-> 120], "int32")>>

\* the record types write_header is applied to, by the name of the struct
HdrTypeNames == {"X", "XY", "ABC", "Long"} \cup ScalarTypes

\* the descriptor of the struct of that name
Descriptor(struct) ==
  CASE struct = "X" -> <<Field(<<120>>, "int16")>>
    [] struct = "XY" -> <<Field(<<120>>, "int32"), Field(<<121>>, "double")>>
    [] struct = "ABC" -> <<Field(<<97>>, "uint8"), Field(<<98, 99>>, "uint16")>>
    [] struct = "Long" -> LongType
    [] OTHER -> <<Field(<<116>>, struct)>>

\* counts of every decimal width: 1, 10, 100, ... and 9, 99, 999, ...
PowerOfTen(w) == [i \in 1..w |-> IF i = 1 THEN 1 ELSE 0]
Nines(w) == [i \in 1..w |-> 9]
CountSamples ==
  {Zero, SIZE_MAX}
    \cup { PowerOfTen(w) : w \in 1..Len(SIZE_MAX) }
    \cup { Nines(w) : w \in 1..(Len(SIZE_MAX) - 1) }
    \cup { NumeralOf(n) : n \in 0..MaxAppend }

HdrInit ==
  /\ hdr_type \in HdrTypeNames
  /\ hdr_order \in Orders
  /\ hdr_pc = "declared"
  /\ hdr_codes = <<>>
  /\ hdr_fixed = 0
  /\ hdr_bytes = <<>>
  /\ hdr_sizes = <<>>

\* instantiating the writer for the record type evaluates dtypes_codes; a
\* member type without a dtype code makes the instantiation ill-formed
HdrInstantiate ==
  /\ hdr_pc = "declared"
  /\ hdr_codes' = dtypes_codes(hdr_order, Descriptor(hdr_type))
  /\ hdr_pc' = IF \A i \in 1..Len(Descriptor(hdr_type)) :
                      dtype_code(hdr_order, Descriptor(hdr_type)[i].type) # NoCode
               THEN "compiled" ELSE "ill_formed"
  /\ UNCHANGED <<hdr_type, hdr_order, hdr_fixed, hdr_bytes, hdr_sizes>>
  /\ UNCHANGED hdr_rest

HdrWrite(num_tuples, next) ==
  LET r == write_header(hdr_order, Descriptor(hdr_type), hdr_fixed, num_tuples)
  IN /\ hdr_bytes' = r.header
     /\ hdr_fixed' = r.m_fixed_header_length
     /\ hdr_sizes' = Append(hdr_sizes, Len(r.header))
     /\ hdr_pc' = next
     /\ UNCHANGED <<hdr_type, hdr_order, hdr_codes>>
     /\ UNCHANGED hdr_rest

\* constructor: write_header(SIZE_MAX)
HdrWriteMax == hdr_pc = "compiled" /\ HdrWrite(SIZE_MAX, "reserved")

\* constructor: write_header(0)
HdrWriteZero == hdr_pc = "reserved" /\ HdrWrite(Zero, "open")

\* destructor: write_header(m_num_tuples)
HdrWriteFinal(num_tuples) == hdr_pc = "open" /\ HdrWrite(num_tuples, "closed")

HdrNext ==
  \/ HdrInstantiate
  \/ HdrWriteMax
  \/ HdrWriteZero
  \/ \E n \in CountSamples : HdrWriteFinal(n)

NpyIdle ==
  /\ Namedtuple = <<>>
  /\ writers = <<>>
  /\ disk = <<>>
  /\ appended = <<>>
  /\ file_state = <<>>
  /\ patches = <<>>
  /\ npy_event = <<>>

HdrIdle ==
  /\ hdr_type = "none"
  /\ hdr_order = "little"
  /\ hdr_pc = "idle"
  /\ hdr_codes = <<>>
  /\ hdr_fixed = 0
  /\ hdr_bytes = <<>>
  /\ hdr_sizes = <<>>


----------------------------------------------------------------------------
(* Reading a file back: what the bytes of a .npy file declare *)

Min(S) == CHOOSE x \in S : \A y \in S : x <= y

\* the value of the little endian header length field, bytes 8 and 9
HeaderLen(content) == content[9] + 256 * content[10]

\* the number of bytes up to and including the newline that ends the header
HeaderEnd(content) == Min({ i \in 11..Len(content) : content[i] = 10 })

RECURSIVE ReadDigits(_, _)
ReadDigits(content, i) ==
  IF i <= Len(content) /\ content[i] \in 48..57
  THEN <<content[i] - 48>> \o ReadDigits(content, i + 1)
  ELSE <<>>

\* the row count the header declares: the digits after "'shape': ("
DeclaredShape(content) ==
  LET at == Min({ i \in 1..(Len(content) - Len(ShapeKey) + 1) :
                    SubSeq(content, i, i + Len(ShapeKey) - 1) = ShapeKey })
  IN ReadDigits(content, at + Len(ShapeKey))

RECURSIVE LittleEndian(_)
\* the number a sequence of little endian bytes stands for
LittleEndian(bytes) ==
  IF bytes = <<>> THEN 0 ELSE bytes[1] + 256 * LittleEndian(Tail(bytes))

\* the offset of field j within a record
FieldOffset(type, j) == RecordSize(type, 1) - RecordSize(type, j)

\* the value of field j in the i-th slot of the data section starting at offset
SlotValue(type, content, offset, i, j) ==
  LET from == offset + (i - 1) * RecordSize(type, 1) + FieldOffset(type, j)
  IN LittleEndian(SubSeq(content, from + 1, from + SizeOf[type[j].type]))

----------------------------------------------------------------------------
(* Text formatting and parsing: operator<< and operator>> of the streams *)

RECURSIVE DecimalDigits(_)
\* the decimal digits of a natural number
DecimalDigits(n) ==
  IF n < 10 THEN <<48 + n>> ELSE Append(DecimalDigits(n \div 10), 48 + (n % 10))

CharTypes == {"int8", "uint8"}

\* os << x: an int8_t or uint8_t is a character type and is written as the
\* character itself, a bool as 0 or 1, every other integer in decimal
Format(T, x) ==
  IF T \in CharTypes THEN <<x % 256>>
  ELSE IF x < 0 THEN <<45>> \o DecimalDigits(-x) ELSE DecimalDigits(x)

IsSpace(c) == c \in {9, 10, 11, 12, 13, 32}

RECURSIVE SkipSpace(_)
\* the leading whitespace a formatted extraction skips
SkipSpace(text) ==
  IF text # <<>> /\ IsSpace(text[1]) THEN SkipSpace(Tail(text)) ELSE text

RECURSIVE LeadingDigits(_)
LeadingDigits(text) ==
  IF text # <<>> /\ text[1] \in 48..57
  THEN <<text[1]>> \o LeadingDigits(Tail(text))
  ELSE <<>>

RECURSIVE DigitsValue(_, _)
DigitsValue(digits, acc) ==
  IF digits = <<>> THEN acc
  ELSE DigitsValue(Tail(digits), 10 * acc + (digits[1] - 48))

\* std::istringstream(text) >> x for x of type T holding init: a character
\* type takes the first character that is not whitespace and keeps its value
\* when there is none; an integer takes sign and digits, skipping leading
\* whitespace and leaving what follows, and becomes 0 when there is no digit;
\* a bool takes an integer and is true unless that is 0
Extract(T, text, init) ==
  LET t == SkipSpace(text)
      signed == t # <<>> /\ t[1] \in {43, 45}
      digits == LeadingDigits(IF signed THEN Tail(t) ELSE t)
      number == IF signed /\ t[1] = 45 THEN 0 - DigitsValue(digits, 0)
                ELSE DigitsValue(digits, 0)
  IN IF T \in CharTypes THEN (IF t = <<>> THEN init ELSE t[1])
     ELSE IF digits = <<>> THEN 0
     ELSE IF T = "bool" THEN (IF number = 0 THEN 0 ELSE 1)
     ELSE number

----------------------------------------------------------------------------
(* DsvWriter *)

NamesOf(type) == [i \in 1..Len(type) |-> type[i].name]

RECURSIVE write_cells(_, _, _)
\* each value followed by the delimiter, the last one by a newline
write_cells(Delimiter, cells, i) ==
  IF i > Len(cells) THEN <<>>
  ELSE cells[i] \o <<IF i + 1 <= Len(cells) THEN Delimiter ELSE 10>>
         \o write_cells(Delimiter, cells, i + 1)

\* DsvWriter::write_line of the names or of the values of a record
write_line(Delimiter, type, values, header) ==
  write_cells(Delimiter,
              [i \in 1..Len(type) |->
                 IF header THEN values[i] ELSE Format(type[i].type, values[i])],
              1)

----------------------------------------------------------------------------
(* DsvReader *)

NoError == [kind |-> "none", line |-> 0]
Error(kind, line) == [kind |-> kind, line |-> line]

\* std::getline(m_file, m_line): a stream that is not good sets failbit and
\* leaves the line; else the characters up to the next newline are taken and
\* the newline is dropped; reaching the end of the file sets eofbit, and
\* failbit too when no character was taken
getline(m_file, content, m_line) ==
  IF m_file.eofbit \/ m_file.failbit
  THEN [m_file |-> [m_file EXCEPT !.failbit = TRUE], m_line |-> m_line]
  ELSE LET newlines == { i \in (m_file.pos + 1)..Len(content) : content[i] = 10 }
       IN IF newlines # {}
          THEN [m_file |-> [m_file EXCEPT !.pos = Min(newlines)],
                m_line |-> SubSeq(content, m_file.pos + 1, Min(newlines) - 1)]
          ELSE [m_file |-> [pos |-> Len(content), eofbit |-> TRUE,
                            failbit |-> m_file.pos = Len(content)],
                m_line |-> SubSeq(content, m_file.pos + 1, Len(content))]

RECURSIVE split(_, _, _)
\* the loop of read_line that splits m_line into m_columns; pos counts the
\* characters already consumed
split(Delimiter, m_line, pos) ==
  IF ~(pos < Len(m_line)) THEN <<>>
  ELSE LET dels == { i \in (pos + 1)..Len(m_line) : m_line[i] = Delimiter }
       IN IF dels = {}
          THEN <<SubSeq(m_line, pos + 1, Len(m_line))>>
          ELSE <<SubSeq(m_line, pos + 1, Min(dels) - 1)>>
                 \o split(Delimiter, m_line, Min(dels))

\* read_line without the test for the end of the file
read_line_ignoring_eof(Delimiter, self, content) ==
  LET got == getline(self.m_file, content, self.m_line)
      next == [self EXCEPT !.m_file = got.m_file, !.m_line = got.m_line,
                           !.m_num_lines = @ + 1]
  IN IF got.m_file.failbit
     THEN [self |-> next, returned |-> FALSE,
           error |-> Error("could_not_read_line", next.m_num_lines)]
     ELSE [self |-> [next EXCEPT !.m_columns = split(Delimiter, got.m_line, 0)],
           returned |-> TRUE, error |-> NoError]

\* DsvReader::read_line: the reader after the call, and what the call did
read_line(Delimiter, self, content) ==
  LET got == getline(self.m_file, content, self.m_line)
      next == [self EXCEPT !.m_file = got.m_file, !.m_line = got.m_line,
                           !.m_num_lines = @ + 1]
  IN IF got.m_file.eofbit THEN [self |-> next, returned |-> FALSE, error |-> NoError]
     ELSE IF got.m_file.failbit
     THEN [self |-> next, returned |-> FALSE,
           error |-> Error("could_not_read_line", next.m_num_lines)]
     ELSE [self |-> [next EXCEPT !.m_columns = split(Delimiter, got.m_line, 0)],
           returned |-> TRUE, error |-> NoError]

RECURSIVE column_order(_, _, _, _, _)
\* the second loop of parse_header over the columns of the header line
column_order(names, m_columns, i, m_tuple_to_column, m_extra_columns) ==
  IF i > Len(m_columns)
  THEN [m_tuple_to_column |-> m_tuple_to_column, m_extra_columns |-> m_extra_columns]
  ELSE LET found == { k \in 1..Len(names) : names[k] = m_columns[i] }
       IN IF found # {}
          THEN column_order(names, m_columns, i + 1,
                            [m_tuple_to_column EXCEPT ![Min(found)] = i],
                            m_extra_columns)
          ELSE column_order(names, m_columns, i + 1, m_tuple_to_column,
                            Append(m_extra_columns, i))

\* parse_header without the check that every name is in the header
parse_header_unchecked(names, self) ==
  LET order == column_order(names, self.m_columns, 1, self.m_tuple_to_column, <<>>)
  IN [self |-> [self EXCEPT !.m_tuple_to_column = order.m_tuple_to_column,
                            !.m_extra_columns = order.m_extra_columns,
                            !.m_num_columns = Len(self.m_columns)],
      error |-> NoError]

\* parse_header that maps a member to the first column of its name
parse_header_first_named(names, self) ==
  LET missing == { k \in 1..Len(names) :
                     \A i \in 1..Len(self.m_columns) : self.m_columns[i] # names[k] }
      order == column_order(names, self.m_columns, 1, self.m_tuple_to_column, <<>>)
  IN IF missing # {}
     THEN [self |-> self, error |-> Error("missing_header_column", Min(missing))]
     ELSE [self |-> [self EXCEPT
                       !.m_tuple_to_column =
                          [k \in 1..Len(names) |->
                             Min({ i \in 1..Len(self.m_columns) :
                                     self.m_columns[i] = names[k] })],
                       !.m_extra_columns = order.m_extra_columns,
                       !.m_num_columns = Len(self.m_columns)],
           error |-> NoError]

\* DsvReader::parse_header
parse_header(names, self) ==
  LET missing == { k \in 1..Len(names) :
                     \A i \in 1..Len(self.m_columns) : self.m_columns[i] # names[k] }
      order == column_order(names, self.m_columns, 1, self.m_tuple_to_column, <<>>)
  IN IF missing # {}
     THEN [self |-> self, error |-> Error("missing_header_column", Min(missing))]
     ELSE [self |-> [self EXCEPT !.m_tuple_to_column = order.m_tuple_to_column,
                                 !.m_extra_columns = order.m_extra_columns,
                                 !.m_num_columns = Len(self.m_columns)],
           error |-> NoError]

\* the members of a reader before the body of the constructor runs; the
\* entries of m_tuple_to_column are indeterminate until they are assigned
Unopened(type) ==
  [m_file |-> [pos |-> 0, eofbit |-> FALSE, failbit |-> FALSE],
   m_line |-> <<>>, m_columns |-> <<>>, m_num_lines |-> 0, m_num_records |-> 0,
   m_num_columns |-> SIZE_MAX,
   m_tuple_to_column |-> [i \in 1..Len(type) |-> "indeterminate"],
   m_extra_columns |-> <<>>]

\* DsvReader(path, verify_header) on a path that holds content, or on a
\* path that cannot be opened
DsvReader(Delimiter, type, exists, content, verify_header) ==
  IF ~exists
  THEN [self |-> Unopened(type), error |-> Error("could_not_open", 0)]
  ELSE LET first == read_line(Delimiter, Unopened(type), content)
       IN IF first.error # NoError THEN [self |-> first.self, error |-> first.error]
          ELSE IF ~first.returned
          THEN [self |-> first.self, error |-> Error("could_not_read_header", 0)]
          ELSE IF verify_header THEN parse_header(NamesOf(type), first.self)
          ELSE [self |-> [first.self EXCEPT
                            !.m_num_columns = Len(type),
                            !.m_tuple_to_column = [i \in 1..Len(type) |-> i]],
                error |-> NoError]

\* DsvReader::parse_record: each member from the column mapped to it
parse_record(type, self) ==
  [i \in 1..Len(type) |->
     Extract(type[i].type, self.m_columns[self.m_tuple_to_column[i]], 0)]

\* read that counts the record as soon as a line was read, before the
\* columns are checked
read_counting_lines(Delimiter, type, self, content, record) ==
  LET line == read_line(Delimiter, self, content)
      s == [line.self EXCEPT !.m_num_records = @ + 1]
  IN IF line.error # NoError
     THEN [self |-> line.self, record |-> record, returned |-> FALSE,
           error |-> line.error]
     ELSE IF ~line.returned
     THEN [self |-> line.self, record |-> record, returned |-> FALSE,
           error |-> NoError]
     ELSE IF Len(s.m_columns) < s.m_num_columns
     THEN [self |-> s, record |-> record, returned |-> FALSE,
           error |-> Error("too_few_columns", s.m_num_lines)]
     ELSE IF s.m_num_columns < Len(s.m_columns)
     THEN [self |-> s, record |-> record, returned |-> FALSE,
           error |-> Error("too_many_columns", s.m_num_lines)]
     ELSE [self |-> s, record |-> parse_record(type, s), returned |-> TRUE,
           error |-> NoError]

\* read that puts the line back when its number of columns is wrong
read_rewinding(Delimiter, type, self, content, record) ==
  LET line == read_line(Delimiter, self, content)
      s == line.self
  IN IF line.error # NoError
     THEN [self |-> s, record |-> record, returned |-> FALSE, error |-> line.error]
     ELSE IF ~line.returned
     THEN [self |-> s, record |-> record, returned |-> FALSE, error |-> NoError]
     ELSE IF Len(s.m_columns) < s.m_num_columns
     THEN [self |-> self, record |-> record, returned |-> FALSE,
           error |-> Error("too_few_columns", s.m_num_lines)]
     ELSE IF s.m_num_columns < Len(s.m_columns)
     THEN [self |-> self, record |-> record, returned |-> FALSE,
           error |-> Error("too_many_columns", s.m_num_lines)]
     ELSE [self |-> [s EXCEPT !.m_num_records = @ + 1],
           record |-> parse_record(type, s), returned |-> TRUE, error |-> NoError]

\* DsvReader::read(record): the reader and the listed members of the
\* caller's record after the call, and what the call did
read(Delimiter, type, self, content, record) ==
  LET line == read_line(Delimiter, self, content)
      s == line.self
  IN IF line.error # NoError
     THEN [self |-> s, record |-> record, returned |-> FALSE, error |-> line.error]
     ELSE IF ~line.returned
     THEN [self |-> s, record |-> record, returned |-> FALSE, error |-> NoError]
     ELSE IF Len(s.m_columns) < s.m_num_columns
     THEN [self |-> s, record |-> record, returned |-> FALSE,
           error |-> Error("too_few_columns", s.m_num_lines)]
     ELSE IF s.m_num_columns < Len(s.m_columns)
     THEN [self |-> s, record |-> record, returned |-> FALSE,
           error |-> Error("too_many_columns", s.m_num_lines)]
     ELSE [self |-> [s EXCEPT !.m_num_records = @ + 1],
           record |-> parse_record(type, s), returned |-> TRUE, error |-> NoError]

\* DsvReader::read(record, extra) with extra a std::vector<int>
read_extra(Delimiter, type, self, content, record, extra) ==
  LET r == read(Delimiter, type, self, content, record)
  IN IF ~r.returned
     THEN [self |-> r.self, record |-> r.record, extra |-> extra,
           returned |-> FALSE, error |-> r.error]
     ELSE [self |-> r.self, record |-> r.record,
           extra |-> [k \in 1..Len(r.self.m_extra_columns) |->
                        Extract("int32", r.self.m_columns[r.self.m_extra_columns[k]], 0)],
           returned |-> TRUE, error |-> NoError]

----------------------------------------------------------------------------
(* Writing records to a text file and reading them back *)

DsvTypes ==
  { <<Field(<<120>>, "int16"), Field(<<121>>, "int32"), Field(<<100>>, "bool")>>,
    <<Field(<<99>>, "int8"), Field(<<110>>, "int32")>> }

Delimiters == {44, 9}   \* ',' of the Csv classes, '\t' of the Tsv classes

\* the values of a member the records of the model take
Samples(T) ==
  IF T \in CharTypes THEN {9, 10, 32, 44, 65}
  ELSE IF T = "bool" THEN {0, 1}
  ELSE {0 - 12, 7}

RECURSIVE SampleTuples(_)
SampleTuples(type) ==
  IF type = <<>> THEN {<<>>}
  ELSE { <<v>> \o rest : v \in Samples(type[1].type), rest \in SampleTuples(Tail(type)) }

\* a record whose members are value-initialised
Zeroed(type) == [i \in 1..Len(type) |-> 0]

\* the name of the member of the struct that DFE_NAMEDTUPLE does not list
THIS_IS_UNUSED == <<85>>

\* a value-initialised struct: the listed members, with the member that is
\* not listed declared after the first of them
StructOf(type) ==
  <<[name |-> type[1].name, value |-> 0], [name |-> THIS_IS_UNUSED, value |-> 0]>>
    \o [i \in 1..(Len(type) - 1) |-> [name |-> type[i + 1].name, value |-> 0]]

\* an assignment that copies the tuple onto the members of the struct in
\* the order of their declaration
tuple_assign_declared(record, members, other) ==
  [m \in 1..Len(record) |->
     IF m <= Len(other) THEN [record[m] EXCEPT !.value = other[m]] ELSE record[m]]

\* name& operator=(const std::tuple<U...>& other): std::tie(members) = other
tuple_assign(record, members, other) ==
  [m \in 1..Len(record) |->
     LET listed == { i \in 1..Len(members) : members[i] = record[m].name }
     IN IF listed = {} THEN record[m]
        ELSE [record[m] EXCEPT !.value = other[CHOOSE i \in listed : \A j \in listed : j <= i]]]

NoCall == [op |-> "none", calls |-> 0, returned |-> FALSE, error |-> NoError]
NoTable == [header |-> <<>>, rows |-> <<>>, terminated |-> TRUE]

DsvStart ==
  /\ dsv_writer = "none"
  /\ dsv_rows = <<>>
  /\ dsv_reader = [state |-> "none", self |-> Unopened(dsv_type)]
  /\ dsv_args = [verify_header |-> TRUE, with_extra |-> FALSE]
  /\ dsv_record = Zeroed(dsv_type)
  /\ dsv_struct = StructOf(dsv_type)
  /\ dsv_extra = <<>>
  /\ dsv_call = NoCall
  /\ dsv_got = <<>>

DsvRoundTripInit ==
  /\ dsv_type \in DsvTypes
  /\ dsv_delim \in Delimiters
  /\ dsv_file = [exists |-> FALSE, content |-> <<>>]
  /\ dsv_table = NoTable
  /\ DsvStart

\* DsvWriter(path): creates the file and writes the names as the first line
DsvWriterOpen ==
  /\ dsv_writer = "none"
  /\ dsv_writer' = "open"
  /\ dsv_file' = [exists |-> TRUE,
                  content |-> write_line(dsv_delim, dsv_type, NamesOf(dsv_type), TRUE)]
  /\ UNCHANGED <<dsv_type, dsv_delim, dsv_rows, dsv_table, dsv_reader, dsv_args,
                 dsv_record, dsv_struct, dsv_extra, dsv_call, dsv_got>>
  /\ UNCHANGED dsv_rest

\* DsvWriter::append(record)
DsvWriterAppend(record) ==
  /\ dsv_writer = "open"
  /\ Len(dsv_rows) < MaxRows
  /\ dsv_file' = [dsv_file EXCEPT
                    !.content = @ \o write_line(dsv_delim, dsv_type, record, FALSE)]
  /\ dsv_rows' = Append(dsv_rows, record)
  /\ UNCHANGED <<dsv_type, dsv_delim, dsv_writer, dsv_table, dsv_reader, dsv_args,
                 dsv_record, dsv_struct, dsv_extra, dsv_call, dsv_got>>
  /\ UNCHANGED dsv_rest

\* ~DsvWriter(): the file is closed and complete
DsvWriterClose ==
  /\ dsv_writer = "open"
  /\ dsv_writer' = "closed"
  /\ UNCHANGED <<dsv_type, dsv_delim, dsv_file, dsv_rows, dsv_table, dsv_reader,
                 dsv_args, dsv_record, dsv_struct, dsv_extra, dsv_call, dsv_got>>
  /\ UNCHANGED dsv_rest

\* DsvReader(path, verify_header), on a file no writer holds open
DsvReaderOpen(verify_header, with_extra) ==
  /\ dsv_writer # "open"
  /\ dsv_reader.state = "none"
  /\ LET made == DsvReader(dsv_delim, dsv_type, dsv_file.exists, dsv_file.content,
                           verify_header)
     IN /\ dsv_reader' = [state |-> IF made.error = NoError THEN "open" ELSE "failed",
                           self |-> made.self]
        /\ dsv_call' = [op |-> "open", calls |-> 0, returned |-> FALSE,
                        error |-> made.error]
  /\ dsv_args' = [verify_header |-> verify_header, with_extra |-> with_extra]
  /\ UNCHANGED <<dsv_type, dsv_delim, dsv_file, dsv_writer, dsv_rows, dsv_table,
                 dsv_record, dsv_struct, dsv_extra, dsv_got>>
  /\ UNCHANGED dsv_rest

\* the lines of the file, the header included, as the writer or the table
\* made them
LinesMade == 1 + (IF dsv_writer = "closed" THEN Len(dsv_rows) ELSE Len(dsv_table.rows))

\* reader.read(record) or reader.read(record, extra)
DsvRead ==
  /\ dsv_reader.state = "open"
  /\ dsv_call.calls < LinesMade + 1
  /\ LET r == IF dsv_args.with_extra
              THEN read_extra(dsv_delim, dsv_type, dsv_reader.self, dsv_file.content,
                              dsv_record, dsv_extra)
              ELSE read(dsv_delim, dsv_type, dsv_reader.self, dsv_file.content, dsv_record)
     IN /\ dsv_reader' = [dsv_reader EXCEPT !.self = r.self]
        /\ dsv_record' = r.record
        /\ dsv_struct' = IF r.returned
                          THEN tuple_assign(dsv_struct, NamesOf(dsv_type), r.record)
                          ELSE dsv_struct
        /\ dsv_extra' = IF dsv_args.with_extra THEN r.extra ELSE dsv_extra
        /\ dsv_call' = [op |-> "read", calls |-> dsv_call.calls + 1,
                        returned |-> r.returned, error |-> r.error]
        /\ dsv_got' = IF r.returned THEN Append(dsv_got, r.record) ELSE dsv_got
  /\ UNCHANGED <<dsv_type, dsv_delim, dsv_file, dsv_writer, dsv_rows, dsv_table,
                 dsv_args>>
  /\ UNCHANGED dsv_rest

DsvRoundTripNext ==
  \/ DsvWriterOpen
  \/ \E record \in SampleTuples(dsv_type) : DsvWriterAppend(record)
  \/ DsvWriterClose
  \/ dsv_writer = "closed" /\ \E verify_header \in BOOLEAN :
                                DsvReaderOpen(verify_header, FALSE)
  \/ DsvRead

----------------------------------------------------------------------------
(* Reading a given text file *)

\* struct with members x and y
XY == <<Field(<<120>>, "int32"), Field(<<121>>, "int32")>>

\* names of columns that are not members: "e", "f" and the empty name
ExtraE == <<101>>
ExtraF == <<102>>
NoName == <<>>

Reverse(s) == [i \in 1..Len(s) |-> s[Len(s) + 1 - i]]

\* the header lines of the model: the names in order, permuted, with extra
\* columns before, between and after them, with a name missing or repeated
HeaderSamples(type) ==
  LET names == NamesOf(type)
  IN { names,
       Reverse(names),
       names \o <<ExtraE>>,
       <<ExtraE>> \o Reverse(names),
       <<Head(names), ExtraE>> \o Tail(names) \o <<ExtraF>>,
       names \o <<NoName>>,
       <<NoName>> \o names,
       <<NoName, ExtraE>> \o names,
       names \o <<Head(names)>>,
       <<Head(names), ExtraE>> \o names,
       Tail(names),
       <<ExtraE>> \o Tail(names) }

\* the cell of a data line: the decimal text of a number that tells the line
\* and the column, or nothing
CellValue(row, column) == 10 * row + column

\* a data line of a file with a header of n cells: as many cells, one fewer
\* or one more; all filled, or the first or the last one empty
RowShapes ==
  { [delta |-> d, empty |-> e] :
      d \in {0 - 1, 0, 1}, e \in {"none", "first", "last"} }

RowCells(n, row, shape) ==
  LET count == IF n + shape.delta < 1 THEN 1 ELSE n + shape.delta
  IN [c \in 1..count |->
        IF \/ shape.empty = "first" /\ c = 1
           \/ shape.empty = "last" /\ c = count
        THEN <<>>
        ELSE DecimalDigits(CellValue(row, c))]

RowsOfShapes(n, shapes) ==
  [r \in 1..Len(shapes) |-> RowCells(n, r, shapes[r])]

ShapeLists ==
  UNION { [1..k -> RowShapes] : k \in 0..MaxLines }

RECURSIVE JoinCells(_, _)
JoinCells(Delimiter, cells) ==
  IF cells = <<>> THEN <<>>
  ELSE IF Len(cells) = 1 THEN cells[1]
  ELSE cells[1] \o <<Delimiter>> \o JoinCells(Delimiter, Tail(cells))

RECURSIVE JoinLines(_, _, _)
\* the bytes of a file of the given lines; the last line ends with a newline
\* only if the file is terminated
JoinLines(Delimiter, lines, terminated) ==
  IF lines = <<>> THEN <<>>
  ELSE JoinCells(Delimiter, lines[1])
         \o (IF Len(lines) > 1 \/ terminated THEN <<10>> ELSE <<>>)
         \o JoinLines(Delimiter, Tail(lines), terminated)

FileOf(Delimiter, table) ==
  JoinLines(Delimiter, <<table.header>> \o table.rows, table.terminated)

DsvReadInit ==
  /\ dsv_type = XY
  /\ dsv_delim \in Delimiters
  /\ \/ /\ dsv_table = NoTable
        /\ dsv_file = [exists |-> FALSE, content |-> <<>>]
     \/ \E header \in HeaderSamples(dsv_type), shapes \in ShapeLists,
           terminated \in BOOLEAN :
          /\ dsv_table = [header |-> header,
                          rows |-> RowsOfShapes(Len(header), shapes),
                          terminated |-> terminated]
          /\ dsv_file = [exists |-> TRUE, content |-> FileOf(dsv_delim, dsv_table)]
  /\ DsvStart

DsvReadNext ==
  \/ \E verify_header \in BOOLEAN, with_extra \in BOOLEAN :
       DsvReaderOpen(verify_header, with_extra)
  \/ DsvRead

DsvIdle ==
  /\ dsv_type = <<>>
  /\ dsv_delim = 0
  /\ dsv_file = <<>>
  /\ dsv_writer = "none"
  /\ dsv_rows = <<>>
  /\ dsv_table = <<>>
  /\ dsv_reader = <<>>
  /\ dsv_args = <<>>
  /\ dsv_record = <<>>
  /\ dsv_struct = <<>>
  /\ dsv_extra = <<>>
  /\ dsv_call = <<>>
  /\ dsv_got = <<>>

----------------------------------------------------------------------------
(* UntypedDsvWriter *)

NoThrow == [type |-> "none", what |-> "none"]
Thrown(type, what) == [type |-> type, what |-> what]

\* an argument of append: an arithmetic or string value, or a std::vector
Value(type, value) == [type |-> type, value |-> value]
Scalar(x) == [kind |-> "scalar", xs |-> <<x>>]
Vector(xs) == [kind |-> "vector", xs |-> xs]

\* os << x for a string or a number
Put(x) == IF x.type = "string" THEN x.value ELSE Format(x.type, x.value)

RECURSIVE write_vector(_, _, _)
\* write(xs, os) for a std::vector: the text put on the stream after n
\* entries were written
write_vector(Delimiter, xs, n) ==
  IF n >= Len(xs) THEN <<>>
  ELSE (IF 0 < n THEN <<Delimiter>> ELSE <<>>) \o Put(xs[n + 1])
         \o write_vector(Delimiter, xs, n + 1)

\* write(x, os): the text put on the stream and the number of columns
\* returned
write(Delimiter, arg) ==
  IF arg.kind = "vector"
  THEN [text |-> write_vector(Delimiter, arg.xs, 0), columns |-> Len(arg.xs)]
  ELSE [text |-> Put(arg.xs[1]), columns |-> 1]

RECURSIVE line_text(_, _, _)
\* the temporary line of append: the first argument, then a delimiter
\* before each further argument, then a newline
line_text(Delimiter, args, i) ==
  IF i > Len(args) THEN <<10>>
  ELSE (IF i > 1 THEN <<Delimiter>> ELSE <<>>) \o write(Delimiter, args[i]).text
         \o line_text(Delimiter, args, i + 1)

RECURSIVE total_columns(_, _, _)
\* the sum of written_columns
total_columns(Delimiter, args, i) ==
  IF i > Len(args) THEN 0
  ELSE write(Delimiter, args[i]).columns + total_columns(Delimiter, args, i + 1)

\* append that writes the line to the file before the columns are counted
untyped_append_unbuffered(Delimiter, self, file, args) ==
  LET total == total_columns(Delimiter, args, 1)
      written == [file EXCEPT !.content = @ \o line_text(Delimiter, args, 1)]
  IN IF total < self.m_num_columns
     THEN [file |-> written,
           thrown |-> Thrown("std::invalid_argument", "Not enough columns")]
     ELSE IF self.m_num_columns < total
     THEN [file |-> written,
           thrown |-> Thrown("std::invalid_argument", "Too many columns")]
     ELSE [file |-> written, thrown |-> NoThrow]

\* UntypedDsvWriter::append(arg0, args...): the file after the call and the
\* exception thrown
untyped_append(Delimiter, self, file, args) ==
  LET total == total_columns(Delimiter, args, 1)
  IN IF total < self.m_num_columns
     THEN [file |-> file,
           thrown |-> Thrown("std::invalid_argument", "Not enough columns")]
     ELSE IF self.m_num_columns < total
     THEN [file |-> file,
           thrown |-> Thrown("std::invalid_argument", "Too many columns")]
     ELSE [file |-> [file EXCEPT !.content = @ \o line_text(Delimiter, args, 1)],
           thrown |-> NoThrow]

\* UntypedDsvWriter(columns, path): opening truncates the file; the names
\* are appended as the first line
UntypedDsvWriter(Delimiter, columns, openable, file) ==
  LET self == [m_num_columns |-> Len(columns)]
      created == [exists |-> TRUE, content |-> <<>>]
      names == Vector([i \in 1..Len(columns) |-> Value("string", columns[i])])
      header == untyped_append(Delimiter, self, created, <<names>>)
  IN IF ~openable
     THEN [self |-> self, file |-> file,
           thrown |-> Thrown("std::runtime_error", "Could not open file")]
     ELSE IF self.m_num_columns = 0
     THEN [self |-> self, file |-> created,
           thrown |-> Thrown("std::invalid_argument", "No columns were specified")]
     ELSE [self |-> self, file |-> header.file, thrown |-> header.thrown]

\* the column names given to the constructor: none, or the first of a, b, c
ColumnSamples ==
  { <<>>, <<<<97>>>>, <<<<97>>, <<98>>>>, <<<<97>>, <<98>>, <<99>>>> }

\* the arguments of the model: at each place a number, or a vector of no,
\* one or two numbers; each number tells its place
ArgAt(i, shape) ==
  IF shape.kind = "scalar" THEN Scalar(Value("int32", 10 * i))
  ELSE Vector([j \in 1..shape.size |-> Value("int32", 10 * i + j)])

ArgShapes ==
  {[kind |-> "scalar", size |-> 1]} \cup {[kind |-> "vector", size |-> n] : n \in 0..2}

ArgSamples ==
  UNION { { [i \in 1..k |-> ArgAt(i, shapes[i])] : shapes \in [1..k -> ArgShapes] } :
          k \in 1..MaxArgs }

NoUwCall == [op |-> "none", calls |-> 0, failed |-> 0, args |-> <<>>, thrown |-> NoThrow]

UwInit ==
  /\ uw_delim \in Delimiters
  /\ uw_file = [exists |-> FALSE, content |-> <<>>]
  /\ uw_writer = [state |-> "none", self |-> [m_num_columns |-> 0]]
  /\ uw_call = NoUwCall
  /\ uw_rows = <<>>

\* CsvWriter / TsvWriter writer(columns, path)
UwConstruct(columns, openable) ==
  /\ uw_writer.state = "none"
  /\ LET made == UntypedDsvWriter(uw_delim, columns, openable, uw_file)
     IN /\ uw_writer' = [state |-> IF made.thrown = NoThrow THEN "open" ELSE "failed",
                         self |-> made.self]
        /\ uw_file' = made.file
        /\ uw_call' = [NoUwCall EXCEPT !.op = "construct", !.thrown = made.thrown]
  /\ UNCHANGED <<uw_delim, uw_rows>>
  /\ UNCHANGED uw_rest

\* writer.append(args...)
UwAppend(args) ==
  /\ uw_writer.state = "open"
  /\ uw_call.calls < MaxCalls
  /\ LET r == untyped_append(uw_delim, uw_writer.self, uw_file, args)
     IN /\ uw_file' = r.file
        /\ uw_call' = [op |-> "append", calls |-> uw_call.calls + 1,
                       failed |-> uw_call.failed + (IF r.thrown = NoThrow THEN 0 ELSE 1),
                       args |-> args, thrown |-> r.thrown]
        /\ uw_rows' = IF r.thrown = NoThrow THEN Append(uw_rows, args) ELSE uw_rows
  /\ UNCHANGED <<uw_delim, uw_writer>>
  /\ UNCHANGED uw_rest

UwNext ==
  \/ \E columns \in ColumnSamples, openable \in BOOLEAN : UwConstruct(columns, openable)
  \/ \E args \in ArgSamples : UwAppend(args)

UwIdle ==
  /\ uw_delim = 0
  /\ uw_file = <<>>
  /\ uw_writer = <<>>
  /\ uw_call = <<>>
  /\ uw_rows = <<>>

----------------------------------------------------------------------------
(* Opening a path: the constructors of the readers and writers *)

\* std::basic_fstream::open under the exception mask of the stream: a path
\* that cannot be opened sets failbit, which throws only when the mask
\* holds failbit
fstream_open(exceptions, openable) ==
  [is_open |-> openable, failbit |-> ~openable,
   thrown |-> IF ~openable /\ "failbit" \in exceptions
              THEN Thrown("std::ios_base::failure", "open") ELSE NoThrow]

\* m_file.ignore(max, '\n'): a stream that is not good sets failbit; else
\* the characters up to and including the next newline are dropped, and
\* eofbit is set when the file ends first
ignore(m_file, content) ==
  IF m_file.eofbit \/ m_file.failbit THEN [m_file EXCEPT !.failbit = TRUE]
  ELSE LET newlines == { i \in (m_file.pos + 1)..Len(content) : content[i] = 10 }
       IN IF newlines # {} THEN [m_file EXCEPT !.pos = Min(newlines)]
          ELSE [m_file EXCEPT !.pos = Len(content), !.eofbit = TRUE]

\* the members of a TextNamedtupleReader before its constructor body runs
TextUnopened(type) ==
  [is_open |-> FALSE,
   m_file |-> [pos |-> 0, eofbit |-> FALSE, failbit |-> FALSE],
   m_line |-> <<>>, m_columns |-> [i \in 1..Len(type) |-> <<>>], m_num_lines |-> 0]

RECURSIVE text_split(_, _, _, _, _)
\* the loop of TextNamedtupleReader::read_line over the columns
text_split(m_delimiter, m_line, m_columns, icol, pos) ==
  IF ~(icol < Len(m_columns) /\ pos < Len(m_line))
  THEN [m_columns |-> m_columns, icol |-> icol, pos |-> pos, empty |-> FALSE]
  ELSE LET dels == { i \in (pos + 1)..Len(m_line) : m_line[i] = m_delimiter }
       IN IF dels # {} /\ Min(dels) = pos + 1
          THEN [m_columns |-> m_columns, icol |-> icol, pos |-> pos, empty |-> TRUE]
          ELSE IF dels = {}
          THEN text_split(m_delimiter, m_line,
                          [m_columns EXCEPT ![icol + 1] = SubSeq(m_line, pos + 1, Len(m_line))],
                          icol + 1, Len(m_line))
          ELSE text_split(m_delimiter, m_line,
                          [m_columns EXCEPT ![icol + 1] = SubSeq(m_line, pos + 1, Min(dels) - 1)],
                          icol + 1, Min(dels))

\* TextNamedtupleReader::read_line
text_read_line(m_delimiter, self, content) ==
  LET got == getline(self.m_file, content, self.m_line)
      next == [self EXCEPT !.m_file = got.m_file, !.m_line = got.m_line]
      cols == text_split(m_delimiter, got.m_line, self.m_columns, 0, 0)
      filled == [next EXCEPT !.m_columns = cols.m_columns]
  IN IF got.m_file.eofbit \/ got.m_file.failbit
     THEN [self |-> next, returned |-> FALSE, thrown |-> NoThrow]
     ELSE IF cols.empty
     THEN [self |-> filled, returned |-> FALSE,
           thrown |-> Thrown("std::runtime_error", "Empty column")]
     ELSE IF cols.icol < Len(self.m_columns)
     THEN [self |-> filled, returned |-> FALSE,
           thrown |-> Thrown("std::runtime_error", "Too few columns")]
     ELSE IF cols.pos < Len(got.m_line)
     THEN [self |-> filled, returned |-> FALSE,
           thrown |-> Thrown("std::runtime_error", "Too many columns")]
     ELSE [self |-> [filled EXCEPT !.m_num_lines = @ + 1], returned |-> TRUE,
           thrown |-> NoThrow]

\* TextNamedtupleReader(path, delimiter, verify_header): the exception mask
\* is badbit alone
TextNamedtupleReader(m_delimiter, type, openable, content, verify_header) ==
  LET opened == fstream_open({"badbit"}, openable)
      self == [TextUnopened(type) EXCEPT !.is_open = opened.is_open,
                                         !.m_file.failbit = opened.failbit]
      first == text_read_line(m_delimiter, self, content)
  IN IF opened.thrown # NoThrow THEN [self |-> self, thrown |-> opened.thrown]
     ELSE IF ~verify_header
     THEN [self |-> [self EXCEPT !.m_file = ignore(self.m_file, content)],
           thrown |-> NoThrow]
     ELSE IF first.thrown # NoThrow THEN [self |-> first.self, thrown |-> first.thrown]
     ELSE IF ~first.returned
     THEN [self |-> first.self,
           thrown |-> Thrown("std::runtime_error", "Invalid file header")]
     ELSE IF \E i \in 1..Len(type) : type[i].name # first.self.m_columns[i]
     THEN [self |-> first.self,
           thrown |-> Thrown("std::runtime_error", "Invalid header column")]
     ELSE [self |-> first.self, thrown |-> NoThrow]

\* TextNamedtupleReader::read with parse_line
text_read(m_delimiter, type, self, content, record) ==
  LET line == text_read_line(m_delimiter, self, content)
  IN IF line.thrown # NoThrow \/ ~line.returned
     THEN [self |-> line.self, record |-> record, returned |-> FALSE,
           thrown |-> line.thrown]
     ELSE [self |-> line.self,
           record |-> [i \in 1..Len(type) |->
                         Extract(type[i].type, line.self.m_columns[i], 0)],
           returned |-> TRUE, thrown |-> NoThrow]

\* TextNamedtupleWriter::write_line
text_write_line(m_delimiter, type, values, header) ==
  write_cells(m_delimiter,
              [i \in 1..Len(type) |->
                 IF header THEN values[i] ELSE Format(type[i].type, values[i])],
              1)

\* TextNamedtupleWriter(path, delimiter): the mask is badbit | failbit
TextNamedtupleWriter(m_delimiter, type, openable, file) ==
  LET opened == fstream_open({"badbit", "failbit"}, openable)
  IN IF opened.thrown # NoThrow
     THEN [self |-> [is_open |-> FALSE], file |-> file, thrown |-> opened.thrown]
     ELSE [self |-> [is_open |-> opened.is_open],
           file |-> [exists |-> TRUE,
                     content |-> text_write_line(m_delimiter, type, NamesOf(type), TRUE)],
           thrown |-> NoThrow]

\* DsvWriter(path): the mask is badbit | failbit
DsvWriter(Delimiter, type, openable, file) ==
  LET opened == fstream_open({"badbit", "failbit"}, openable)
  IN IF opened.thrown # NoThrow
     THEN [self |-> [is_open |-> FALSE], file |-> file, thrown |-> opened.thrown]
     ELSE [self |-> [is_open |-> opened.is_open],
           file |-> [exists |-> TRUE,
                     content |-> write_line(Delimiter, type, NamesOf(type), TRUE)],
           thrown |-> NoThrow]

\* NpyNamedtupleWriter(path): the mask is badbit | failbit
NpyNamedtupleWriter(type, openable, file) ==
  LET opened == fstream_open({"badbit", "failbit"}, openable)
      made == Constructor(type, "a", [p \in Paths |-> <<>>])
  IN IF opened.thrown # NoThrow
     THEN [self |-> Unborn, file |-> file, thrown |-> opened.thrown]
     ELSE [self |-> made.self, file |-> [exists |-> TRUE, content |-> made.files["a"]],
           thrown |-> NoThrow]

Classes ==
  {"DsvReader", "DsvWriter", "UntypedDsvWriter", "TextNamedtupleReader",
   "TextNamedtupleWriter", "NpyNamedtupleWriter"}

\* what a path that can be opened holds: nothing, the header line, the header
\* and a row, the same without the last newline, or the names reversed and a row
PathContents(Delimiter) ==
  LET header == write_line(Delimiter, XY, NamesOf(XY), TRUE)
      row == write_line(Delimiter, XY, <<7, 0 - 12>>, FALSE)
  IN { <<>>, header, header \o row, header \o SubSeq(row, 1, Len(row) - 1),
       write_line(Delimiter, XY, Reverse(NamesOf(XY)), TRUE) \o row }

NoIoCall == [op |-> "none", calls |-> 0, returned |-> FALSE, thrown |-> NoThrow]

IoInit ==
  /\ io_class \in Classes
  /\ io_delim \in Delimiters
  /\ io_openable \in BOOLEAN
  /\ io_file \in IF io_openable
                 THEN { [exists |-> TRUE, content |-> c] : c \in PathContents(io_delim) }
                 ELSE { [exists |-> FALSE, content |-> <<>>] }
  /\ io_verify = TRUE
  /\ io_object = [state |-> "none", self |-> <<>>]
  /\ io_record = Zeroed(XY)
  /\ io_call = NoIoCall

\* the constructor of the class on the path
IoMade(verify_header) ==
  CASE io_class = "DsvReader" ->
         LET r == DsvReader(io_delim, XY, io_openable, io_file.content, verify_header)
         IN [self |-> r.self, file |-> io_file,
             thrown |-> IF r.error = NoError THEN NoThrow
                        ELSE Thrown("std::runtime_error", r.error.kind)]
    [] io_class = "TextNamedtupleReader" ->
         LET r == TextNamedtupleReader(io_delim, XY, io_openable, io_file.content,
                                       verify_header)
         IN [self |-> r.self, file |-> io_file, thrown |-> r.thrown]
    [] io_class = "DsvWriter" -> DsvWriter(io_delim, XY, io_openable, io_file)
    [] io_class = "TextNamedtupleWriter" ->
         TextNamedtupleWriter(io_delim, XY, io_openable, io_file)
    [] io_class = "UntypedDsvWriter" ->
         UntypedDsvWriter(io_delim, NamesOf(XY), io_openable, io_file)
    [] io_class = "NpyNamedtupleWriter" -> NpyNamedtupleWriter(XY, io_openable, io_file)

\* Class object(path, ...): an exception leaves no object
IoConstruct(verify_header) ==
  /\ io_object.state = "none"
  /\ LET made == IoMade(verify_header)
     IN /\ io_object' = [state |-> IF made.thrown = NoThrow THEN "constructed" ELSE "failed",
                         self |-> made.self]
        /\ io_file' = made.file
        /\ io_call' = [NoIoCall EXCEPT !.op = "construct", !.thrown = made.thrown]
  /\ io_verify' = verify_header
  /\ UNCHANGED <<io_class, io_delim, io_openable, io_record>>
  /\ UNCHANGED io_rest

\* the first and later uses of the object: read of a reader, append of a
\* writer
IoUsed(values) ==
  CASE io_class = "DsvReader" ->
         LET r == read(io_delim, XY, io_object.self, io_file.content, io_record)
         IN [self |-> r.self, file |-> io_file, record |-> r.record,
             returned |-> r.returned,
             thrown |-> IF r.error = NoError THEN NoThrow
                        ELSE Thrown("std::runtime_error", r.error.kind)]
    [] io_class = "TextNamedtupleReader" ->
         LET r == text_read(io_delim, XY, io_object.self, io_file.content, io_record)
         IN [self |-> r.self, file |-> io_file, record |-> r.record,
             returned |-> r.returned, thrown |-> r.thrown]
    [] io_class = "DsvWriter" ->
         [self |-> io_object.self,
          file |-> [io_file EXCEPT !.content = @ \o write_line(io_delim, XY, values, FALSE)],
          record |-> io_record, returned |-> TRUE, thrown |-> NoThrow]
    [] io_class = "TextNamedtupleWriter" ->
         [self |-> io_object.self,
          file |-> [io_file EXCEPT
                      !.content = @ \o text_write_line(io_delim, XY, values, FALSE)],
          record |-> io_record, returned |-> TRUE, thrown |-> NoThrow]
    [] io_class = "UntypedDsvWriter" ->
         LET r == untyped_append(io_delim, io_object.self, io_file,
                                 [i \in 1..Len(values) |->
                                    Scalar(Value("int32", values[i]))])
         IN [self |-> io_object.self, file |-> r.file, record |-> io_record,
             returned |-> r.thrown = NoThrow, thrown |-> r.thrown]
    [] io_class = "NpyNamedtupleWriter" ->
         LET r == append(XY, io_object.self, [p \in Paths |-> io_file.content],
                         [i \in 1..Len(values) |-> values[i] + 12])
         IN [self |-> r.self, file |-> [io_file EXCEPT !.content = r.files["a"]],
             record |-> io_record, returned |-> TRUE, thrown |-> NoThrow]

IoUse(values) ==
  /\ io_object.state = "constructed"
  /\ io_call.calls < MaxUses
  /\ LET r == IoUsed(values)
     IN /\ io_object' = [io_object EXCEPT !.self = r.self]
        /\ io_file' = r.file
        /\ io_record' = r.record
        /\ io_call' = [op |-> "use", calls |-> io_call.calls + 1,
                       returned |-> r.returned, thrown |-> r.thrown]
  /\ UNCHANGED <<io_class, io_delim, io_openable, io_verify>>
  /\ UNCHANGED io_rest

IoNext ==
  \/ \E verify_header \in BOOLEAN : IoConstruct(verify_header)
  \/ \E values \in SampleTuples(XY) : IoUse(values)

IoIdle ==
  /\ io_class = "none"
  /\ io_delim = 0
  /\ io_openable = FALSE
  /\ io_file = <<>>
  /\ io_verify = FALSE
  /\ io_object = <<>>
  /\ io_record = <<>>
  /\ io_call = <<>>

----------------------------------------------------------------------------
(* DFE_NAMEDTUPLE: the declaration of a named tuple and its names() *)

RECURSIVE Stringify(_, _, _)
\* #members: the member tokens as the declaration lists them, separated by
\* commas; white space of the source before or after a comma is kept as one
\* space, white space before the first and after the last token is dropped
Stringify(members, before, after) ==
  IF members = <<>> THEN <<>>
  ELSE IF Len(members) = 1 THEN members[1]
  ELSE members[1] \o (IF before THEN <<32>> ELSE <<>>) \o <<44>>
         \o (IF after THEN <<32>> ELSE <<>>) \o Stringify(Tail(members), before, after)

RECURSIVE SkipBlanks(_)
\* while ((*str != '\0') and (*str == ' ')) ++str, and str += strspn(str, " ")
SkipBlanks(str) ==
  IF str # <<>> /\ str[1] = 32 THEN SkipBlanks(Tail(str)) ELSE str

\* the characters of str before the first ',', or all of them
UpToComma(str) ==
  LET commas == { i \in 1..Len(str) : str[i] = 44 }
  IN IF commas = {} THEN str ELSE SubSeq(str, 1, Min(commas) - 1)

\* the characters of str after the first ','
AfterComma(str) ==
  LET commas == { i \in 1..Len(str) : str[i] = 44 }
  IN SubSeq(str, Min(commas) + 1, Len(str))

HasComma(str) == \E i \in 1..Len(str) : str[i] = 44

RECURSIVE unstringify_from(_, _, _, _)
\* the loop of unstringify from index idx on
unstringify_from(N, str, idx, out) ==
  IF ~(idx < N) THEN out
  ELSE LET s == SkipBlanks(str)
           stored == [out EXCEPT ![idx + 1] = UpToComma(s)]
       IN IF ~HasComma(s) THEN stored
          ELSE unstringify_from(N, AfterComma(s), idx + 1, stored)

\* namedtuple_impl::unstringify<N>(str)
unstringify(N, str) ==
  [out |-> unstringify_from(N, str, 0, [i \in 1..N |-> <<>>]), undefined |-> FALSE]

RECURSIVE unstringify_names_from(_, _, _, _)
\* the loop of unstringify_names and the assignment after it; storing past
\* the end of the array is undefined
unstringify_names_from(N, str, idx, out) ==
  IF HasComma(str)
  THEN IF idx < N
       THEN unstringify_names_from(N, SkipBlanks(AfterComma(str)), idx + 1,
                                   [out EXCEPT ![idx + 1] = UpToComma(str)])
       ELSE [out |-> out, undefined |-> TRUE]
  ELSE IF idx < N
       THEN [out |-> [out EXCEPT ![idx + 1] = str], undefined |-> FALSE]
       ELSE [out |-> out, undefined |-> TRUE]

\* namedtuple_impl::unstringify_names<N>(str) of the legacy header
unstringify_names(N, str) ==
  unstringify_names_from(N, str, 0, [i \in 1..N |-> <<>>])

\* the two headers that define DFE_NAMEDTUPLE
Headers == {"dfe/dfe_namedtuple.hpp", "dfe_namedtuple.hpp"}

\* the member tokens of a declaration: x, y, or nothing between two commas
MemberTokens == { <<120>>, <<121>>, <<>> }

RECURSIVE MemberLists(_)
\* the member lists of at most n tokens
MemberLists(n) ==
  IF n = 0 THEN {<<>>}
  ELSE MemberLists(n - 1)
         \cup { Append(l, t) : l \in { m \in MemberLists(n - 1) : Len(m) = n - 1 },
                               t \in MemberTokens }

\* whether the expansion of DFE_NAMEDTUPLE(name, members...) compiles:
\* std::make_tuple(members) needs an expression at every place of the list;
\* a list of no members is taken by the GNU named variadic macro and refused
\* by a build that holds to the standard
Compiles(members, pedantic) ==
  /\ \A i \in 1..Len(members) : members[i] # <<>>
  /\ members = <<>> => ~pedantic

NoNames == [calls |-> 0, outcome |-> "none", first |-> <<>>]

NtInit ==
  /\ nt_header \in Headers
  /\ nt_members \in MemberLists(MaxMembers)
  /\ nt_space \in [before : BOOLEAN, after : BOOLEAN]
  /\ nt_decl = "none"
  /\ nt_names = <<>>
  /\ nt_call = NoNames

\* struct name { ...; DFE_NAMEDTUPLE(name, members...) }; is compiled
NtDeclare(pedantic) ==
  /\ nt_decl = "none"
  /\ nt_decl' = IF Compiles(nt_members, pedantic) THEN "declared" ELSE "rejected"
  /\ UNCHANGED <<nt_header, nt_members, nt_space, nt_names, nt_call>>
  /\ UNCHANGED nt_rest

\* name::names(): N is the size of Tuple, the string is #members
NtNames(crash) ==
  /\ nt_decl = "declared"
  /\ nt_call.outcome # "crashed"
  /\ nt_call.calls < MaxNames
  /\ LET N == Len(nt_members)
         str == Stringify(nt_members, nt_space.before, nt_space.after)
         r == IF nt_header = "dfe/dfe_namedtuple.hpp" THEN unstringify(N, str)
              ELSE unstringify_names(N, str)
     IN /\ crash => r.undefined
        /\ nt_names' = IF crash THEN nt_names ELSE r.out
        /\ nt_call' = [calls |-> nt_call.calls + 1,
                       outcome |-> IF crash THEN "crashed" ELSE "returned",
                       first |-> IF nt_call.calls = 0 /\ ~crash THEN r.out
                                 ELSE nt_call.first]
  /\ UNCHANGED <<nt_header, nt_members, nt_space, nt_decl>>
  /\ UNCHANGED nt_rest

NtNext ==
  \/ \E pedantic \in BOOLEAN : NtDeclare(pedantic)
  \/ \E crash \in BOOLEAN : NtNames(crash)

NtIdle ==
  /\ nt_header = "none"
  /\ nt_members = <<>>
  /\ nt_space = <<>>
  /\ nt_decl = "none"
  /\ nt_names = <<>>
  /\ nt_call = <<>>

----------------------------------------------------------------------------
(* Dispatcher: commands registered and called by name *)

\* the functions a caller registers: two that implement the native
\* interface, native (returns its arguments joined) and an empty
\* std::function, and two with typed arguments, int twice(int) and
\* void reset()
NativeFuncs == {"native", "nullptr"}
TypedFuncs == {"twice", "reset"}

\* sizeof...(Args) of a typed function
ArgsOf(target) == IF target = "twice" THEN 1 ELSE 0

Command(wrapped, target, nargs) ==
  [func |-> [wrapped |-> wrapped, target |-> target], nargs |-> nargs]

\* the added[name] = command of std::unordered_map::operator[]
Registered(m_commands, name, command) ==
  [n \in DOMAIN m_commands \cup {name} |-> IF n = name THEN command ELSE m_commands[n]]

\* add(name, func, nargs) of the native interface, as its declaration and
\* its unit test have it: an empty or registered name is refused
add_native(m_commands, name, target, nargs) ==
  IF name = <<>>
  THEN [m_commands |-> m_commands,
        thrown |-> Thrown("std::invalid_argument", "empty name")]
  ELSE IF name \in DOMAIN m_commands
  THEN [m_commands |-> m_commands,
        thrown |-> Thrown("std::invalid_argument", "more than once")]
  ELSE [m_commands |-> Registered(m_commands, name, Command(FALSE, target, nargs)),
        thrown |-> NoThrow]

\* add(name, std::function<R(Args...)>): the wrapped function is stored
\* under the name
add_function(m_commands, name, target) ==
  [m_commands |-> Registered(m_commands, name, Command(TRUE, target, ArgsOf(target))),
   thrown |-> NoThrow]

\* add(name, R (*func)(Args...)) hands over to add(name, std::function)
add_pointer(m_commands, name, target) == add_function(m_commands, name, target)

\* add(name, member_func, t) hands a lambda over to add(name, std::function)
add_member(m_commands, name, target) == add_function(m_commands, name, target)

RECURSIVE Joined(_)
\* the native function of the unit test: its arguments one after another
Joined(args) == IF args = <<>> THEN <<>> ELSE Head(args) \o Joined(Tail(args))

\* cmd.func(args): a native function is called as it is; the wrapper of a
\* typed function decodes every argument, throws when one does not hold a
\* value, and encodes what the function returns
invoke(func, args) ==
  IF ~func.wrapped
  THEN IF func.target = "nullptr"
       THEN [thrown |-> Thrown("std::bad_function_call", "empty"), result |-> <<>>,
             called |-> <<>>]
       ELSE [thrown |-> NoThrow, result |-> Joined(args), called |-> <<func.target>>]
  ELSE IF func.target = "twice"
  THEN LET t == SkipSpace(args[1])
           signed == t # <<>> /\ t[1] \in {43, 45}
           digits == LeadingDigits(IF signed THEN Tail(t) ELSE t)
       IN IF digits = <<>>
          THEN [thrown |-> Thrown("std::invalid_argument", "Could not convert value"),
                result |-> <<>>, called |-> <<>>]
          ELSE [thrown |-> NoThrow,
                result |-> Format("int32", 2 * Extract("int32", args[1], 0)),
                called |-> <<func.target>>]
  ELSE [thrown |-> NoThrow, result |-> <<>>, called |-> <<func.target>>]

\* call that does not compare the number of arguments
call_unchecked(m_commands, name, args) ==
  IF name \notin DOMAIN m_commands
  THEN [thrown |-> Thrown("std::invalid_argument", "Unknown command"),
        result |-> <<>>, invoked |-> <<>>, called |-> <<>>]
  ELSE LET r == invoke(m_commands[name].func,
                       args \o [i \in 1..m_commands[name].nargs |-> <<>>])
       IN [thrown |-> r.thrown, result |-> r.result,
           invoked |-> <<[func |-> m_commands[name].func, args |-> args]>>,
           called |-> r.called]

\* Dispatcher::call(name, args)
call(m_commands, name, args) ==
  IF name \notin DOMAIN m_commands
  THEN [thrown |-> Thrown("std::invalid_argument", "Unknown command"),
        result |-> <<>>, invoked |-> <<>>, called |-> <<>>]
  ELSE IF Len(args) # m_commands[name].nargs
  THEN [thrown |-> Thrown("std::invalid_argument", "expects nargs arguments"),
        result |-> <<>>, invoked |-> <<>>, called |-> <<>>]
  ELSE LET r == invoke(m_commands[name].func, args)
       IN [thrown |-> r.thrown, result |-> r.result,
           invoked |-> <<[func |-> m_commands[name].func, args |-> args]>>,
           called |-> r.called]

\* the names of the model: "", "f" and "g"
CommandNames == { <<>>, <<102>>, <<103>> }

\* the arguments of a call: up to MaxCallArgs strings, each "4" or "x"
ArgStrings == { <<52>>, <<120>> }

RECURSIVE ArgLists(_)
ArgLists(n) ==
  IF n = 0 THEN {<<>>}
  ELSE ArgLists(n - 1)
         \cup { Append(l, a) : l \in { m \in ArgLists(n - 1) : Len(m) = n - 1 },
                               a \in ArgStrings }

NoDpCall ==
  [op |-> "none", overload |-> "none", name |-> <<>>, args |-> <<>>,
   thrown |-> NoThrow, result |-> <<>>, invoked |-> <<>>, called |-> <<>>]

DpInit ==
  /\ dp_commands = <<>>
  /\ dp_last = NoDpCall

\* dp.add(name, func, nargs)
DpAddNative(name, target, nargs) ==
  /\ LET r == add_native(dp_commands, name, target, nargs)
     IN /\ dp_commands' = r.m_commands
        /\ dp_last' = [NoDpCall EXCEPT !.op = "add", !.overload = "native",
                                       !.name = name, !.thrown = r.thrown]
  /\ UNCHANGED <<var_value, var_last>>
  /\ UNCHANGED dp_rest

\* dp.add(name, func) with a std::function, a function pointer, or a member
\* function and its object
DpAddTyped(overload, name, target) ==
  /\ LET r == CASE overload = "std::function" -> add_function(dp_commands, name, target)
                [] overload = "function pointer" -> add_pointer(dp_commands, name, target)
                [] overload = "member function" -> add_member(dp_commands, name, target)
     IN /\ dp_commands' = r.m_commands
        /\ dp_last' = [NoDpCall EXCEPT !.op = "add", !.overload = overload,
                                       !.name = name, !.thrown = r.thrown]
  /\ UNCHANGED <<var_value, var_last>>
  /\ UNCHANGED dp_rest

\* dp.call(name, args)
DpCall(name, args) ==
  /\ LET r == call(dp_commands, name, args)
     IN dp_last' = [op |-> "call", overload |-> "none", name |-> name, args |-> args,
                    thrown |-> r.thrown, result |-> r.result, invoked |-> r.invoked,
                    called |-> r.called]
  /\ UNCHANGED <<dp_commands, var_value, var_last>>
  /\ UNCHANGED dp_rest

DpNext ==
  \/ \E name \in CommandNames, target \in NativeFuncs, nargs \in 0..MaxCallArgs :
       DpAddNative(name, target, nargs)
  \/ \E overload \in {"std::function", "function pointer", "member function"},
        name \in CommandNames, target \in TypedFuncs :
       DpAddTyped(overload, name, target)
  \/ \E name \in CommandNames, args \in ArgLists(MaxCallArgs) : DpCall(name, args)

DpIdle ==
  /\ dp_commands = <<>>
  /\ dp_last = <<>>

----------------------------------------------------------------------------
(* Variable: a value of one of several types *)

VariableTypes == {"Empty", "Boolean", "Integer", "Float", "String"}

\* the members of a Variable: the type tag, the union with the member last
\* written and its value, and the string
Members(type, member, value, string) ==
  [m_type |-> type, m_union |-> [member |-> member, value |-> value], m_string |-> string]

\* Variable(): nothing but the tag is initialised
EmptyVariable == Members("Empty", "none", 0, <<>>)

\* Variable(b), Variable(integer), Variable(d), Variable(s) for the values
\* of the unit tests: true and false, -23 and 123, 2.0, "abc"
VariableSamples ==
  { EmptyVariable,
    Members("Boolean", "m_boolean", 1, <<>>), Members("Boolean", "m_boolean", 0, <<>>),
    Members("Integer", "m_integer", 0 - 23, <<>>), Members("Integer", "m_integer", 123, <<>>),
    Members("Float", "m_float", 2, <<>>),
    Members("String", "none", 0, <<97, 98, 99>>) }

\* Variable::operator=(const Variable&): the member that goes with the type
\* of v is copied, then the tag
assign(self, v) ==
  LET copied ==
        IF v.m_type = "Boolean" THEN [self EXCEPT !.m_union = [member |-> "m_boolean", value |-> v.m_union.value]]
        ELSE IF v.m_type = "Integer" THEN [self EXCEPT !.m_union = [member |-> "m_integer", value |-> v.m_union.value]]
        ELSE IF v.m_type = "Float" THEN [self EXCEPT !.m_union = [member |-> "m_float", value |-> v.m_union.value]]
        ELSE IF v.m_type = "String" THEN [self EXCEPT !.m_string = v.m_string]
        ELSE self
  IN [copied EXCEPT !.m_type = v.m_type]

\* the types as<T>() is asked for
AsTypes == {"bool", "int8_t", "int32_t", "int64_t", "uint8_t", "float", "double", "std::string"}

\* Converter<T>::type()
ConverterType(T) ==
  IF T = "bool" THEN "Boolean"
  ELSE IF T \in {"float", "double"} THEN "Float"
  ELSE IF T = "std::string" THEN "String"
  ELSE "Integer"

\* a value as<T>() returns: a number or a string, or the indeterminate
\* value read from a member of the union that was not the one last written
Returned(defined, number, string) ==
  [defined |-> defined, number |-> number, string |-> string]

\* static_cast<I>(m_integer)
CastTo(T, x) ==
  IF T = "int8_t" THEN ((x + 128) % 256) - 128
  ELSE IF T = "uint8_t" THEN x % 256
  ELSE x

\* Converter<T>::as_t(v)
as_t(T, v) ==
  IF T = "std::string" THEN Returned(TRUE, 0, v.m_string)
  ELSE LET member == IF T = "bool" THEN "m_boolean"
                     ELSE IF T \in {"float", "double"} THEN "m_float" ELSE "m_integer"
       IN IF v.m_union.member # member THEN Returned(FALSE, 0, <<>>)
          ELSE Returned(TRUE, CastTo(T, v.m_union.value), <<>>)

\* as<T>() with a test of the stored type before the conversion
as_typed(T, v, name_empty, name_known) ==
  IF v.m_type # ConverterType(T)
  THEN [thrown |-> Thrown("std::invalid_argument", "incompatible type"),
        value |-> Returned(FALSE, 0, <<>>)]
  ELSE [thrown |-> NoThrow, value |-> as_t(T, v)]

\* Variable::as<T>(): the two tests before the conversion read name and
\* m_commands, which are no members of a Variable, so what they find is not
\* decided by the Variable; the stored type is not looked at
as(T, v, name_empty, name_known) ==
  IF name_empty
  THEN [thrown |-> Thrown("std::invalid_argument", "empty name"),
        value |-> Returned(FALSE, 0, <<>>)]
  ELSE IF name_known
  THEN [thrown |-> Thrown("std::invalid_argument", "more than once"),
        value |-> Returned(FALSE, 0, <<>>)]
  ELSE [thrown |-> NoThrow, value |-> as_t(T, v)]

NoVarCall ==
  [op |-> "none", T |-> "none", assigned |-> EmptyVariable, thrown |-> NoThrow,
   value |-> Returned(FALSE, 0, <<>>)]

VarInit ==
  /\ var_value \in VariableSamples
  /\ var_last = NoVarCall

\* x = v
VarAssign(v) ==
  /\ var_value' = assign(var_value, v)
  /\ var_last' = [NoVarCall EXCEPT !.op = "assign", !.assigned = v]
  /\ UNCHANGED <<dp_commands, dp_last>>
  /\ UNCHANGED dp_rest

\* x.as<T>()
VarAs(T, name_empty, name_known) ==
  /\ LET r == as(T, var_value, name_empty, name_known)
     IN var_last' = [NoVarCall EXCEPT !.op = "as", !.T = T, !.thrown = r.thrown,
                                      !.value = r.value]
  /\ UNCHANGED <<var_value, dp_commands, dp_last>>
  /\ UNCHANGED dp_rest

VarNext ==
  \/ \E v \in VariableSamples : VarAssign(v)
  \/ \E T \in AsTypes, name_empty \in BOOLEAN, name_known \in BOOLEAN :
       VarAs(T, name_empty, name_known)

VarIdle ==
  /\ var_value = <<>>
  /\ var_last = <<>>

----------------------------------------------------------------------------
(* FlatSet and FlatMap: containers kept in vectors *)

\* an element of a set: Compare looks at the key alone, so that elements
\* of different payloads can be equivalent
Item(key, payload) == [key |-> key, payload |-> payload]
Items == { Item(key, payload) : key \in 1..MaxKey, payload \in 0..MaxPayload }

\* Compare()(lhs, rhs)
Compare(lhs, rhs) == lhs.key < rhs.key

RECURSIVE lower_bound_from(_, _, _, _)
\* the loop of std::lower_bound over count elements from position first
lower_bound_from(m_items, first, count, t) ==
  IF count = 0 THEN first
  ELSE LET step == count \div 2
           it == first + step
       IN IF Compare(m_items[it], t)
          THEN lower_bound_from(m_items, it + 1, count - (step + 1), t)
          ELSE lower_bound_from(m_items, first, step, t)

\* std::lower_bound(m_items.begin(), m_items.end(), t, Compare()): a
\* position of m_items, or Len(m_items) + 1 for m_items.end()
lower_bound(m_items, t) == lower_bound_from(m_items, 1, Len(m_items), t)

\* m_items.insert(pos, t)
Inserted(m_items, pos, t) ==
  SubSeq(m_items, 1, pos - 1) \o <<t>> \o SubSeq(m_items, pos, Len(m_items))

\* insert_or_assign that always inserts
insert_always(m_items, t) == Inserted(m_items, lower_bound(m_items, t), t)

\* FlatSet::insert_or_assign(t)
insert_or_assign(m_items, t) ==
  LET pos == lower_bound(m_items, t)
  IN IF pos # Len(m_items) + 1 /\ ~Compare(t, m_items[pos])
     THEN [m_items EXCEPT ![pos] = t]
     ELSE Inserted(m_items, pos, t)

\* FlatSet::find(u): a position, or Len(m_items) + 1 for end()
find(m_items, u) ==
  LET end == Len(m_items) + 1
      pos == lower_bound(m_items, u)
  IN IF pos # end /\ ~Compare(u, m_items[pos]) THEN pos ELSE end

\* FlatSet::contains(u): std::binary_search
contains(m_items, u) ==
  LET first == lower_bound(m_items, u)
  IN first # Len(m_items) + 1 /\ ~Compare(u, m_items[first])

\* FlatSet::at(u)
set_at(m_items, u) ==
  LET pos == find(m_items, u)
  IN IF pos = Len(m_items) + 1
     THEN [thrown |-> Thrown("std::out_of_range", "does not exists"), pos |-> 0]
     ELSE [thrown |-> NoThrow, pos |-> pos]

NoFsCall == [op |-> "none", arg |-> Item(0, 0), found |-> 0, contains |-> FALSE]

FsInit ==
  /\ fs_items = <<>>
  /\ fs_last = NoFsCall

\* set.insert_or_assign(t)
FsInsertOrAssign(t) ==
  /\ fs_items' = insert_or_assign(fs_items, t)
  /\ fs_last' = [NoFsCall EXCEPT !.op = "insert_or_assign", !.arg = t]
  /\ UNCHANGED <<fm_keys, fm_items, fm_emplaced, fm_last, na_array, na_last>>
  /\ UNCHANGED ct_rest

\* set.clear()
FsClear ==
  /\ fs_items' = <<>>
  /\ fs_last' = [NoFsCall EXCEPT !.op = "clear"]
  /\ UNCHANGED <<fm_keys, fm_items, fm_emplaced, fm_last, na_array, na_last>>
  /\ UNCHANGED ct_rest

\* set.find(u) and set.contains(u) on the same set
FsFind(u) ==
  /\ fs_last' = [op |-> "find", arg |-> u, found |-> find(fs_items, u),
                 contains |-> contains(fs_items, u)]
  /\ UNCHANGED <<fs_items, fm_keys, fm_items, fm_emplaced, fm_last, na_array, na_last>>
  /\ UNCHANGED ct_rest

FsNext ==
  \/ \E t \in Items : FsInsertOrAssign(t)
  \/ FsClear
  \/ \E u \in Items : FsFind(u)

FsIdle ==
  /\ fs_items = <<>>
  /\ fs_last = <<>>

\* FlatMap::KeyIndex, and a Key as KeyCompare sees it next to a KeyIndex
KeyIndex(key, index) == [key |-> key, index |-> index]
Key(key) == [key |-> key]
Keys == 1..MaxKey
Values == 0..MaxPayload

\* emplace that stores the size of m_items as the index of a new key
emplace_past_end(self, key, value) ==
  LET idx == find(self.m_keys, Key(key))
  IN IF idx # Len(self.m_keys) + 1
     THEN [self EXCEPT !.m_items[self.m_keys[idx].index + 1] = value]
     ELSE LET items == Append(self.m_items, value)
          IN [m_keys |-> insert_or_assign(self.m_keys, KeyIndex(key, Len(items))),
              m_items |-> items]

\* FlatMap::emplace(key, params...)
emplace(self, key, value) ==
  LET idx == find(self.m_keys, Key(key))
  IN IF idx # Len(self.m_keys) + 1
     THEN [self EXCEPT !.m_items[self.m_keys[idx].index + 1] = value]
     ELSE LET items == Append(self.m_items, value)
          IN [m_keys |-> insert_or_assign(self.m_keys, KeyIndex(key, Len(items) - 1)),
              m_items |-> items]

\* FlatMap::at(key): m_items[m_keys.at(key).index]; an index that is no
\* position of m_items refers to no element
map_at(self, key) ==
  LET r == set_at(self.m_keys, Key(key))
  IN IF r.thrown # NoThrow THEN [thrown |-> r.thrown, element |-> FALSE, value |-> 0]
     ELSE LET index == self.m_keys[r.pos].index
          IN IF index + 1 \in DOMAIN self.m_items
             THEN [thrown |-> NoThrow, element |-> TRUE, value |-> self.m_items[index + 1]]
             ELSE [thrown |-> NoThrow, element |-> FALSE, value |-> 0]

FlatMap == [m_keys |-> fm_keys, m_items |-> fm_items]

NoFmCall ==
  [op |-> "none", key |-> 0, value |-> 0, known |-> FALSE, thrown |-> NoThrow]

FmInit ==
  /\ fm_keys = <<>>
  /\ fm_items = <<>>
  /\ fm_emplaced = <<>>
  /\ fm_last = NoFmCall

\* map.emplace(key, value)
FmEmplace(key, value) ==
  /\ LET r == emplace(FlatMap, key, value)
     IN fm_keys' = r.m_keys /\ fm_items' = r.m_items
  /\ fm_emplaced' = [k \in DOMAIN fm_emplaced \cup {key} |->
                       IF k = key THEN value ELSE fm_emplaced[k]]
  /\ fm_last' = [NoFmCall EXCEPT !.op = "emplace", !.key = key, !.value = value,
                                 !.known = key \in DOMAIN fm_emplaced]
  /\ UNCHANGED <<fs_items, fs_last, na_array, na_last>>
  /\ UNCHANGED ct_rest

\* map.clear()
FmClear ==
  /\ fm_keys' = <<>>
  /\ fm_items' = <<>>
  /\ fm_emplaced' = <<>>
  /\ fm_last' = [NoFmCall EXCEPT !.op = "clear"]
  /\ UNCHANGED <<fs_items, fs_last, na_array, na_last>>
  /\ UNCHANGED ct_rest

\* map.at(key)
FmAt(key) ==
  /\ LET r == map_at(FlatMap, key)
     IN fm_last' = [NoFmCall EXCEPT !.op = "at", !.key = key, !.value = r.value,
                                    !.known = key \in DOMAIN fm_emplaced,
                                    !.thrown = r.thrown]
  /\ UNCHANGED <<fm_keys, fm_items, fm_emplaced, fs_items, fs_last, na_array, na_last>>
  /\ UNCHANGED ct_rest

FmNext ==
  \/ \E key \in Keys, value \in Values : FmEmplace(key, value)
  \/ FmClear
  \/ \E key \in Keys : FmAt(key)

FmIdle ==
  /\ fm_keys = <<>>
  /\ fm_items = <<>>
  /\ fm_emplaced = <<>>
  /\ fm_last = <<>>

----------------------------------------------------------------------------
(* NArray: an n-dimensional array in one vector *)

\* a std::size_t of 64 bits as hi * 2^32 + lo; the values of the model
\* keep hi and lo small enough that no sum or product below reaches 2^32
size_t(hi, lo) == [hi |-> hi, lo |-> lo]

\* a * b modulo 2^64: the product of the two high parts is a multiple of
\* 2^64 and is lost
Times(a, b) == size_t(a.hi * b.lo + a.lo * b.hi, a.lo * b.lo)
Plus(a, b) == size_t(a.hi + b.hi, a.lo + b.lo)
LessEq(a, b) == a.hi < b.hi \/ (a.hi = b.hi /\ a.lo <= b.lo)

\* the sizes and indices of the model along one dimension: 0..MaxSize
\* and 2^32
SizeSamples == { size_t(0, n) : n \in 0..MaxSize } \cup { size_t(1, 0) }
Index == [1..NDIMENSIONS -> SizeSamples]

RECURSIVE accumulate(_, _, _)
\* std::accumulate(size.begin(), size.end(), init, std::multiplies<size_t>())
accumulate(size, i, init) ==
  IF i > NDIMENSIONS THEN init ELSE accumulate(size, i + 1, Times(init, size[i]))

\* NArray(size): m_data holds the product of the sizes many zeros; the
\* vector is kept as its length and the elements that are not zero
NArray(size) ==
  [m_size |-> size,
   m_data |-> [count |-> accumulate(size, 1, size_t(0, 1)), values |-> <<>>]]

RECURSIVE linear_from(_, _, _, _, _)
linear_from(m_size, idx, i, result, step) ==
  IF i > NDIMENSIONS THEN result
  ELSE linear_from(m_size, idx, i + 1, Plus(result, Times(step, idx[i])),
                   Times(step, m_size[i]))

\* NArray::linear(idx)
linear(self, idx) == linear_from(self.m_size, idx, 1, size_t(0, 0), size_t(0, 1))

\* within_bounds that leaves the last dimension out
within_bounds_but_last(self, idx) ==
  \A i \in 1..(NDIMENSIONS - 1) : ~LessEq(self.m_size[i], idx[i])

\* NArray::within_bounds(idx)
within_bounds(self, idx) ==
  \A i \in 1..NDIMENSIONS : ~LessEq(self.m_size[i], idx[i])

\* NArray::at(idx): throws, or refers to m_data[linear(idx)], which is an
\* element of the vector when the position is below its length
at(self, idx) ==
  IF ~within_bounds(self, idx)
  THEN [thrown |-> Thrown("std::out_of_range", "NArray index is out of valid range"),
        position |-> size_t(0, 0), element |-> FALSE]
  ELSE LET position == linear(self, idx)
       IN [thrown |-> NoThrow, position |-> position,
           element |-> ~LessEq(self.m_data.count, position)]

\* the value of m_data[position]
ElementAt(m_data, position) ==
  IF position \in DOMAIN m_data.values THEN m_data.values[position] ELSE 0

NoNaCall ==
  [op |-> "none", idx |-> <<>>, thrown |-> NoThrow, position |-> size_t(0, 0),
   element |-> FALSE, value |-> 0]

NaInit ==
  /\ na_array \in { NArray(size) : size \in [1..NDIMENSIONS -> { size_t(0, n) : n \in 1..MaxSize }] }
  /\ na_last = NoNaCall

\* NArray<T, NDIMENSIONS> s(size); the vector of 2^32 elements or more is
\* allocated or std::bad_alloc is thrown
NaConstruct(size, allocated) ==
  LET s == NArray(size)
  IN /\ IF s.m_data.count.hi > 0 /\ ~allocated
        THEN /\ na_array' = na_array
             /\ na_last' = [NoNaCall EXCEPT !.op = "NArray",
                                            !.thrown = Thrown("std::bad_alloc", "none")]
        ELSE /\ na_array' = s
             /\ na_last' = [NoNaCall EXCEPT !.op = "NArray"]
     /\ UNCHANGED <<fs_items, fs_last, fm_keys, fm_items, fm_emplaced, fm_last>>
     /\ UNCHANGED ct_rest

\* s.at(idx)
NaAt(idx) ==
  /\ LET r == at(na_array, idx)
     IN na_last' = [op |-> "at", idx |-> idx, thrown |-> r.thrown, position |-> r.position,
                    element |-> r.element,
                    value |-> IF r.element THEN ElementAt(na_array.m_data, r.position)
                              ELSE 0]
  /\ UNCHANGED <<na_array, fs_items, fs_last, fm_keys, fm_items, fm_emplaced, fm_last>>
  /\ UNCHANGED ct_rest

\* s.at(idx) = 1, for an index whose element exists
NaAssign(idx) ==
  LET r == at(na_array, idx)
  IN /\ r.thrown = NoThrow /\ r.element
     /\ Cardinality(DOMAIN na_array.m_data.values \cup {r.position}) <= MaxWrites
     /\ na_array' = [na_array EXCEPT !.m_data.values =
                       [p \in DOMAIN @ \cup {r.position} |-> 1]]
     /\ na_last' = [NoNaCall EXCEPT !.op = "assign", !.idx = idx,
                                    !.position = r.position, !.element = TRUE,
                                    !.value = 1]
     /\ UNCHANGED <<fs_items, fs_last, fm_keys, fm_items, fm_emplaced, fm_last>>
     /\ UNCHANGED ct_rest

NaNext ==
  \/ \E size \in Index, allocated \in BOOLEAN : NaConstruct(size, allocated)
  \/ \E idx \in Index : NaAt(idx)
  \/ \E idx \in Index : NaAssign(idx)

NaIdle ==
  /\ na_array = <<>>
  /\ na_last = <<>>

----------------------------------------------------------------------------
(* The specifications *)

InitNpy == NpyInit /\ HdrIdle /\ DsvIdle /\ UwIdle /\ IoIdle /\ NtIdle /\ DpIdle /\ VarIdle /\ FsIdle /\ FmIdle /\ NaIdle
SpecNpy == InitNpy /\ [][NpyNext]_vars

InitNpyHeader == HdrInit /\ NpyIdle /\ DsvIdle /\ UwIdle /\ IoIdle /\ NtIdle /\ DpIdle /\ VarIdle /\ FsIdle /\ FmIdle /\ NaIdle
SpecNpyHeader == InitNpyHeader /\ [][HdrNext]_vars

InitDsvRoundTrip == DsvRoundTripInit /\ NpyIdle /\ HdrIdle /\ UwIdle /\ IoIdle /\ NtIdle /\ DpIdle /\ VarIdle /\ FsIdle /\ FmIdle /\ NaIdle
SpecDsvRoundTrip == InitDsvRoundTrip /\ [][DsvRoundTripNext]_vars

InitDsvRead == DsvReadInit /\ NpyIdle /\ HdrIdle /\ UwIdle /\ IoIdle /\ NtIdle /\ DpIdle /\ VarIdle /\ FsIdle /\ FmIdle /\ NaIdle
SpecDsvRead == InitDsvRead /\ [][DsvReadNext]_vars

InitUntyped == UwInit /\ NpyIdle /\ HdrIdle /\ DsvIdle /\ IoIdle /\ NtIdle /\ DpIdle /\ VarIdle /\ FsIdle /\ FmIdle /\ NaIdle
SpecUntyped == InitUntyped /\ [][UwNext]_vars

InitOpen == IoInit /\ NpyIdle /\ HdrIdle /\ DsvIdle /\ UwIdle /\ NtIdle /\ DpIdle /\ VarIdle /\ FsIdle /\ FmIdle /\ NaIdle
SpecOpen == InitOpen /\ [][IoNext]_vars

InitNames == NtInit /\ NpyIdle /\ HdrIdle /\ DsvIdle /\ UwIdle /\ IoIdle /\ DpIdle /\ VarIdle /\ FsIdle /\ FmIdle /\ NaIdle
SpecNames == InitNames /\ [][NtNext]_vars

InitDispatcher ==
  DpInit /\ VarIdle /\ NpyIdle /\ HdrIdle /\ DsvIdle /\ UwIdle /\ IoIdle /\ NtIdle /\ FsIdle /\ FmIdle /\ NaIdle
SpecDispatcher == InitDispatcher /\ [][DpNext]_vars

InitVariable ==
  VarInit /\ DpIdle /\ NpyIdle /\ HdrIdle /\ DsvIdle /\ UwIdle /\ IoIdle /\ NtIdle /\ FsIdle /\ FmIdle /\ NaIdle
SpecVariable == InitVariable /\ [][VarNext]_vars

InitFlatSet ==
  FsInit /\ FmIdle /\ NaIdle /\ NpyIdle /\ HdrIdle /\ DsvIdle /\ UwIdle /\ IoIdle /\ NtIdle
    /\ DpIdle /\ VarIdle
SpecFlatSet == InitFlatSet /\ [][FsNext]_vars

InitFlatMap ==
  FmInit /\ FsIdle /\ NaIdle /\ NpyIdle /\ HdrIdle /\ DsvIdle /\ UwIdle /\ IoIdle /\ NtIdle
    /\ DpIdle /\ VarIdle
SpecFlatMap == InitFlatMap /\ [][FmNext]_vars

InitNArray ==
  NaInit /\ FsIdle /\ FmIdle /\ NpyIdle /\ HdrIdle /\ DsvIdle /\ UwIdle /\ IoIdle /\ NtIdle
    /\ DpIdle /\ VarIdle
SpecNArray == InitNArray /\ [][NaNext]_vars

----------------------------------------------------------------------------
(* Claims about NpyNamedtupleWriter *)

\* C1: the byte length of the header is fixed by the first write,
\* write_header(SIZE_MAX): every later header write (count 0 at construction,
\* the final count at destruction, whatever its decimal width) writes exactly
\* as many bytes, one more than m_fixed_header_length.
C1_HeaderLengthFixed ==
  \A i \in 1..Len(hdr_sizes) :
    /\ hdr_sizes[i] = hdr_sizes[1]
    /\ hdr_sizes[i] = hdr_fixed + 1

\* C1 witness: the three header writes were made, the last with a count of
\* 19 digits
C1_Witness ==
  /\ hdr_pc = "closed"
  /\ Len(hdr_sizes) = 3
  /\ hdr_type = "XY"
  /\ DeclaredShape(hdr_bytes) = Nines(19)

\* C2: once a writer that appended K records to its file is destroyed, the
\* header of the file declares shape (K,) and the bytes after the newline
\* that ends the header are exactly K times the record size.
C2_ShapeAfterClose ==
  \A p \in Paths :
    file_state[p] = "closed_by_destructor" =>
      /\ DeclaredShape(disk[p]) = NumeralOf(Len(appended[p]))
      /\ Len(disk[p]) - HeaderEnd(disk[p])
           = Len(appended[p]) * RecordSize(Namedtuple, 1)

\* C2 witness: a file closed by a destructor after MaxAppend records
C2_Witness ==
  \E p \in Paths :
    /\ file_state[p] = "closed_by_destructor"
    /\ Len(appended[p]) = MaxAppend
    /\ MaxAppend >= 2

\* the header of an open file declares no rows
ZeroWhileOpen ==
  \A p \in Paths : file_state[p] = "open" => DeclaredShape(disk[p]) = Zero

\* a step changes the count a file declares only when it is the destructor of
\* the writer holding the file, and then to that writer's m_num_tuples
CountChangesAtClose ==
  \A p \in Paths :
    (/\ file_state[p] # "absent"
     /\ disk'[p] # disk[p]
     /\ DeclaredShape(disk'[p]) # DeclaredShape(disk[p]))
      => /\ npy_event'.op = "destroy"
         /\ file_state[p] = "open"
         /\ file_state'[p] = "closed_by_destructor"
         /\ writers[npy_event'.writer].path = p
         /\ DeclaredShape(disk'[p]) = writers[npy_event'.writer].m_num_tuples

\* C3: from the end of construction up to the header write of the destructor
\* the header in the file declares zero rows, however many records were
\* appended; the declared count changes only at close, to the final counter.
C3_ZeroUntilClose == []ZeroWhileOpen /\ [][CountChangesAtClose]_vars

\* C3 witness: an open file with MaxAppend records appended
C3_Witness ==
  \E p \in Paths :
    /\ file_state[p] = "open"
    /\ Len(appended[p]) = MaxAppend
    /\ MaxAppend >= 1

\* the i-th record appended is in the i-th slot after the header, its fields
\* in descriptor order, and the file ends after the last slot
RecordsInPlace ==
  \A p \in Paths :
    file_state[p] # "absent" =>
      LET offset == 10 + HeaderLen(disk[p])
      IN /\ offset = HeaderEnd(disk[p])
         /\ Len(disk[p]) = offset + Len(appended[p]) * RecordSize(Namedtuple, 1)
         /\ \A i \in 1..Len(appended[p]) : \A j \in 1..Len(Namedtuple) :
              SlotValue(Namedtuple, disk[p], offset, i, j) = appended[p][i][j]

\* no step changes a byte of the data section that is already in the file
DataUntouched ==
  \A p \in Paths :
    (file_state[p] # "absent" /\ disk'[p] # disk[p]) =>
      /\ Len(disk'[p]) >= Len(disk[p])
      /\ \A i \in (10 + HeaderLen(disk[p]) + 1)..Len(disk[p]) : disk'[p][i] = disk[p][i]

\* C4: append writes at the end of the file, so the i-th record is in the
\* i-th slot after the header with its fields in descriptor order, and the
\* header write of the destructor changes header bytes only.
C4_RecordsInPlace == []RecordsInPlace /\ [][DataUntouched]_vars

\* C4 witness: a file closed by a destructor that holds two different records
C4_Witness ==
  \E p \in Paths :
    /\ file_state[p] = "closed_by_destructor"
    /\ Len(appended[p]) >= 2
    /\ appended[p][1] # appended[p][2]

\* a writer is constructed or move-constructed once and destroyed once
LifeOrder ==
  \A w \in Writers :
    writers'[w].life # writers[w].life =>
      \/ writers[w].life = "unborn" /\ writers'[w].life = "live"
      \/ writers[w].life = "live" /\ writers'[w].life = "gone"

\* the destructor of an open writer writes the header once and closes the
\* file; the destructor of a writer whose file is not open writes nothing
\* and raises nothing
CloseStep ==
  \A w \in Writers :
    (writers[w].life = "live" /\ writers'[w].life = "gone") =>
      /\ ~npy_event'.raised
      /\ IF writers[w].is_open
         THEN /\ npy_event'.header_writes = 1
              /\ patches'[writers[w].path] = 1
              /\ file_state[writers[w].path] = "open"
              /\ file_state'[writers[w].path] = "closed_by_destructor"
         ELSE /\ npy_event'.header_writes = 0
              /\ disk' = disk
              /\ patches' = patches
              /\ file_state' = file_state

\* no file gets more than one header write from destructors
PatchedOnce ==
  \A p \in Paths :
    /\ patches[p] <= 1
    /\ file_state[p] = "closed_by_destructor" => patches[p] = 1

\* C5: a writer goes from constructed to open to closed; the destructor
\* patches the header of the open file exactly once, and the destructor of
\* a writer whose file is no longer open (a moved-from writer) writes
\* nothing and raises no error.
C5_LifeCycle == []PatchedOnce /\ [][LifeOrder /\ CloseStep]_vars

\* C5 witness: a moved-from writer was destroyed after the writer that took
\* over its file closed that file
C5_Witness ==
  /\ npy_event.op = "destroy"
  /\ npy_event.header_writes = 0
  /\ \E p \in Paths : file_state[p] = "closed_by_destructor" /\ Len(appended[p]) >= 1
  /\ \A w \in Writers : writers[w].life = "gone"

\* C6: after every header write the header ends with its only newline, the
\* 16-bit little endian value in bytes 8 and 9 is the number of bytes from
\* byte 10 up to and including that newline, and 10 plus that value is a
\* multiple of 16.
C6_LengthField ==
  hdr_pc \in {"reserved", "open", "closed"} =>
    LET n == Len(hdr_bytes)
    IN /\ hdr_bytes[n] = 10
       /\ \A i \in 11..(n - 1) : hdr_bytes[i] # 10
       /\ HeaderLen(hdr_bytes) = n - 10
       /\ (10 + HeaderLen(hdr_bytes)) % 16 = 0

\* the kind letter of each scalar type: u, i, f, b
KindLetter ==
  [uint8 |-> 117, uint16 |-> 117, uint32 |-> 117, uint64 |-> 117,
   int8  |-> 105, int16  |-> 105, int32  |-> 105, int64  |-> 105,
   float |-> 102, double |-> 102, bool   |-> 98]

\* C7: for every scalar type a descriptor may use, bool included, dtype_code
\* yields '<' on a little endian and '>' on a big endian platform, followed
\* by the kind letter and the byte width of the type.
C7_RegistryTotal ==
  hdr_pc # "declared" =>
    \A i \in 1..Len(Descriptor(hdr_type)) :
      hdr_codes[i] = << IF hdr_order = "little" THEN 60 ELSE 62,
                        KindLetter[Descriptor(hdr_type)[i].type],
                        48 + SizeOf[Descriptor(hdr_type)[i].type] >>

----------------------------------------------------------------------------
(* Claims about DsvWriter and DsvReader *)

\* C8: after a DsvWriter wrote N records to a CSV or TSV file and closed it,
\* a DsvReader opens the file with header verification on or off, its first
\* N reads return true and deliver the N records with identical values in
\* the same order, the next read returns false, no call raises an error, and
\* num_records() is N at the end.
C8_RoundTrip ==
  (dsv_writer = "closed" /\ dsv_call.op # "none") =>
    /\ dsv_call.error = NoError
    /\ dsv_call.op = "read" =>
         /\ dsv_call.returned = (dsv_call.calls <= Len(dsv_rows))
         /\ dsv_call.returned => dsv_record = dsv_rows[dsv_call.calls]
         /\ Len(dsv_got) = Min({dsv_call.calls, Len(dsv_rows)})
         /\ dsv_got = SubSeq(dsv_rows, 1, Len(dsv_got))
         /\ dsv_reader.self.m_num_records = Len(dsv_got)

\* the header holds every name of the descriptor exactly once, among any
\* number of other names
PermutedWithExtras(type, header) ==
  \A k \in 1..Len(type) :
    Cardinality({ i \in 1..Len(header) : header[i] = type[k].name }) = 1

ColumnNamed(header, name) == CHOOSE i \in 1..Len(header) : header[i] = name

RECURSIVE ExtraCells(_, _, _)
\* the cells of a line under the header names that are not in the descriptor
ExtraCells(type, header, cells) ==
  IF header = <<>> THEN <<>>
  ELSE (IF \E k \in 1..Len(type) : type[k].name = Head(header)
        THEN <<>> ELSE <<Head(cells)>>)
         \o ExtraCells(type, Tail(header), Tail(cells))

\* the file was made of complete lines up to and including line number n
LineComplete(n) ==
  /\ dsv_file.exists
  /\ n <= 1 + Len(dsv_table.rows)
  /\ (n < 1 + Len(dsv_table.rows) \/ dsv_table.terminated)

\* C9: a reader opened in verified mode on a file whose header is a
\* permutation of the descriptor's names interleaved with extra names opens,
\* reports as many extra columns as the header has extra names, and every
\* read of a line with as many columns as the header returns true, fills
\* member i from the column under the i-th descriptor name and fills extra
\* with the values of the extra columns in file order.
C9_HeaderOrder ==
  ( /\ dsv_call.op # "none"
    /\ dsv_args.verify_header
    /\ LineComplete(1)
    /\ PermutedWithExtras(dsv_type, dsv_table.header) ) =>
    LET header == dsv_table.header
        line == dsv_table.rows[dsv_call.calls]
    IN /\ dsv_reader.state = "open"
       /\ Len(dsv_reader.self.m_extra_columns) = Len(header) - Len(dsv_type)
       /\ ( /\ dsv_call.op = "read"
            /\ LineComplete(dsv_call.calls + 1)
            /\ Len(line) = Len(header) ) =>
            /\ dsv_call.returned
            /\ dsv_call.error = NoError
            /\ \A k \in 1..Len(dsv_type) :
                 dsv_record[k] =
                   Extract(dsv_type[k].type,
                           line[ColumnNamed(header, dsv_type[k].name)], 0)
            /\ dsv_args.with_extra =>
                 LET cells == ExtraCells(dsv_type, header, line)
                 IN dsv_extra = [k \in 1..Len(cells) |-> Extract("int32", cells[k], 0)]

ColumnErrors == {"too_few_columns", "too_many_columns"}

\* C10: a read of a data line with fewer columns than the count fixed when
\* the reader was opened raises "too few columns", a read of a line with
\* more columns raises "too many columns", each with the 1-based number of
\* the line in the file, and a read of a line with exactly that many columns
\* raises neither.
C10_ColumnCount ==
  (dsv_call.op = "read" /\ dsv_writer = "none" /\ LineComplete(dsv_call.calls + 1)) =>
    LET columns == Len(dsv_table.rows[dsv_call.calls])
        fixed == dsv_reader.self.m_num_columns
    IN /\ columns < fixed =>
            dsv_call.error = Error("too_few_columns", dsv_call.calls + 1)
       /\ columns > fixed =>
            dsv_call.error = Error("too_many_columns", dsv_call.calls + 1)
       /\ columns = fixed => dsv_call.error.kind \notin ColumnErrors

\* the header line of the file lacks the name of a member
LacksName(type, header) ==
  \E k \in 1..Len(type) : \A i \in 1..Len(header) : header[i] # type[k].name

\* C11: opening a reader in verified mode on a file whose header lacks a
\* name of the descriptor fails with the missing-column error in the
\* constructor, so no reader exists and no read is made; a header that holds
\* every name never raises that error.
C11_MissingField ==
  /\ (dsv_writer = "none" /\ dsv_call.op = "open" /\ dsv_args.verify_header
        /\ LineComplete(1)) =>
       IF LacksName(dsv_type, dsv_table.header)
       THEN dsv_reader.state = "failed"
              /\ dsv_call.error.kind = "missing_header_column"
       ELSE dsv_call.error.kind # "missing_header_column"
  /\ dsv_reader.state = "failed" => dsv_call.op = "open"

C11_Witness ==
  /\ dsv_args.verify_header
  /\ LineComplete(1)
  /\ LacksName(dsv_type, dsv_table.header)
  /\ dsv_reader.state = "failed"
  /\ dsv_call.error.kind = "missing_header_column"

\* a constructor ran on a path that cannot be opened
BadPathTried == ~io_openable /\ io_call.op # "none"

\* C12: constructing any reader or writer on a path that cannot be opened
\* fails with an exception thrown by the constructor: no object on an
\* unopened file exists, and no read or append is ever made on one.
C12_BadPath ==
  BadPathTried =>
    /\ io_object.state = "failed"
    /\ io_call.op = "construct"
    /\ io_call.thrown # NoThrow

\* the same for every class but the TextNamedtupleReader constructed with
\* verify_header = false
C12_ButUnverifiedText ==
  (BadPathTried /\ ~(io_class = "TextNamedtupleReader" /\ ~io_verify)) =>
    /\ io_object.state = "failed"
    /\ io_call.op = "construct"
    /\ io_call.thrown # NoThrow

\* the number of delimiters in a line
Delimiters_in(Delimiter, line) ==
  Cardinality({ i \in 1..Len(line) : line[i] = Delimiter })

\* the last call on the reader split a line of the file into m_columns
LineWasSplit ==
  /\ dsv_reader.state = "open"
  /\ \/ dsv_call.op = "open"
     \/ dsv_call.op = "read" /\ (dsv_call.returned \/ dsv_call.error.kind \in ColumnErrors)

\* C13: read_line splits a line with d delimiters into d + 1 columns: an
\* empty field between two delimiters, before a leading delimiter or after
\* a trailing delimiter is an empty column, and the columns are the fields
\* of the line in order.
C13_EmptyColumns ==
  LineWasSplit =>
    /\ Len(dsv_reader.self.m_columns)
         = Delimiters_in(dsv_delim, dsv_reader.self.m_line) + 1
    /\ JoinCells(dsv_delim, dsv_reader.self.m_columns) = dsv_reader.self.m_line

\* num_records() is the number of reads so far that returned true
RecordsCounted ==
  dsv_reader.state = "open" => dsv_reader.self.m_num_records = Len(dsv_got)

\* a call on an open reader never lowers num_records(), leaves it as it was
\* when the call returns false or raises, and never changes
\* num_extra_columns()
CountersStep ==
  (dsv_reader.state = "open" /\ dsv_reader'.state = "open") =>
    /\ dsv_reader'.self.m_num_records >= dsv_reader.self.m_num_records
    /\ ~dsv_call'.returned =>
         dsv_reader'.self.m_num_records = dsv_reader.self.m_num_records
    /\ Len(dsv_reader'.self.m_extra_columns) = Len(dsv_reader.self.m_extra_columns)

\* C14: over any sequence of read calls num_records() never decreases and
\* equals the number of read calls so far that returned true, a read that
\* returns false or raises leaves it unchanged, and num_extra_columns() keeps
\* the value it got when the reader was opened.
C14_Counters == []RecordsCounted /\ [][CountersStep]_vars

\* a read raised a column-count error after an earlier read delivered a
\* record, on a file with an extra column
C14_Witness ==
  /\ dsv_reader.state = "open"
  /\ dsv_call.op = "read"
  /\ dsv_call.error.kind \in ColumnErrors
  /\ dsv_reader.self.m_num_records = 1
  /\ Len(dsv_reader.self.m_extra_columns) = 1

\* a read call made after every line of the file was consumed returns false,
\* raises nothing and changes neither the caller's record, nor the extra
\* vector, nor num_records()
ReadAtEnd ==
  (dsv_call' # dsv_call /\ dsv_call'.op = "read"
     /\ dsv_call'.calls > Len(dsv_table.rows)) =>
    /\ ~dsv_call'.returned
    /\ dsv_call'.error = NoError
    /\ dsv_record' = dsv_record
    /\ dsv_extra' = dsv_extra
    /\ dsv_reader'.self.m_num_records = dsv_reader.self.m_num_records

\* C15: once the file is exhausted read returns false without raising an
\* error, column-count errors included, on that call and on every later
\* call, and leaves the caller's record, the extra vector and num_records()
\* unchanged.
C15_EndOfInput == [][ReadAtEnd]_vars

\* the second read after the end of a file from which a record and its
\* extra value were delivered
C15_Witness ==
  /\ dsv_reader.state = "open"
  /\ dsv_call.op = "read"
  /\ dsv_call.calls = Len(dsv_table.rows) + 2
  /\ ~dsv_call.returned
  /\ dsv_call.error = NoError
  /\ Len(dsv_got) >= 1
  /\ dsv_extra # <<>>

\* C16: a reader opened with verify_header = false on a file with a first
\* line opens whatever that line holds and reports no extra columns; a read
\* of a following line with exactly as many columns as the descriptor has
\* members returns true with member i taken from column i, and a read of a
\* line with any other number of columns raises a column-count error.
C16_StrictOrder ==
  (dsv_writer = "none" /\ dsv_call.op # "none" /\ ~dsv_args.verify_header
     /\ LineComplete(1)) =>
    /\ dsv_reader.state = "open"
    /\ dsv_reader.self.m_extra_columns = <<>>
    /\ (dsv_call.op = "read" /\ LineComplete(dsv_call.calls + 1)) =>
         LET line == dsv_table.rows[dsv_call.calls]
         IN IF Len(line) = Len(dsv_type)
            THEN /\ dsv_call.returned
                 /\ \A i \in 1..Len(dsv_type) :
                      dsv_record[i] = Extract(dsv_type[i].type, line[i], 0)
            ELSE /\ ~dsv_call.returned
                 /\ dsv_call.error.kind \in ColumnErrors

RECURSIVE Entries(_)
\* the number of values in the arguments of one append: one for a scalar,
\* the number of entries for a std::vector
Entries(args) ==
  IF args = <<>> THEN 0
  ELSE (IF args[1].kind = "vector" THEN Len(args[1].xs) ELSE 1) + Entries(Tail(args))

\* one step of the untyped writer is an append call
AppendCalled == uw_call'.op = "append" /\ uw_call'.calls = uw_call.calls + 1

\* an append whose values do not total the number of columns throws
\* std::invalid_argument and leaves the file as it was; any other append,
\* also one after a rejected append, adds one line to the file
AppendChecked ==
  AppendCalled =>
    IF Entries(uw_call'.args) # uw_writer.self.m_num_columns
    THEN /\ uw_call'.thrown.type = "std::invalid_argument"
         /\ uw_file' = uw_file
    ELSE /\ uw_call'.thrown = NoThrow
         /\ Len(uw_file'.content) > Len(uw_file.content)
         /\ SubSeq(uw_file'.content, 1, Len(uw_file.content)) = uw_file.content
         /\ uw_file'.content[Len(uw_file'.content)] = 10
         /\ Delimiters_in(10, uw_file'.content) = Delimiters_in(10, uw_file.content) + 1

\* C17: an append whose arguments (a std::vector counted by its entries) do
\* not total the number of columns given at construction throws
\* std::invalid_argument and leaves the file content as it was before the
\* call; a later append with the right number of values still succeeds.
C17_AppendRejected == [][AppendChecked]_vars

\* a rejected append was followed by an append that wrote its line
C17_Witness ==
  /\ uw_writer.state = "open"
  /\ uw_call.op = "append"
  /\ uw_call.calls = 2
  /\ uw_call.failed = 1
  /\ uw_call.thrown = NoThrow
  /\ Len(uw_rows) = 1

RECURSIVE FileLines(_)
\* the lines of a file whose lines all end in a newline
FileLines(content) ==
  IF content = <<>> THEN <<>>
  ELSE LET end == CHOOSE i \in 1..Len(content) :
                    content[i] = 10 /\ \A j \in 1..(i - 1) : content[j] # 10
       IN <<SubSeq(content, 1, end - 1)>>
            \o FileLines(SubSeq(content, end + 1, Len(content)))

\* C18: every line of the file of an untyped writer, the header and each
\* appended row, holds exactly as many delimiter-separated fields as columns
\* were given at construction, whatever mix of scalars and vectors, empty
\* vectors included, was appended.
C18_FieldsPerLine ==
  uw_writer.state = "open" =>
    /\ Len(FileLines(uw_file.content)) = 1 + Len(uw_rows)
    /\ \A n \in 1..Len(FileLines(uw_file.content)) :
         Delimiters_in(uw_delim, FileLines(uw_file.content)[n]) + 1
           = uw_writer.self.m_num_columns

\* the same for rows appended without an empty vector among the arguments
C18_NoEmptyVector ==
  (/\ uw_writer.state = "open"
   /\ \A r \in 1..Len(uw_rows) : \A i \in 1..Len(uw_rows[r]) : uw_rows[r][i].xs # <<>>) =>
    \A n \in 1..Len(FileLines(uw_file.content)) :
      Delimiters_in(uw_delim, FileLines(uw_file.content)[n]) + 1
        = uw_writer.self.m_num_columns

\* the names are not empty and no two of them are the same
DistinctNames(names) ==
  /\ \A i \in 1..Len(names) : names[i] # <<>>
  /\ \A i, j \in 1..Len(names) : i # j => names[i] # names[j]

\* C19: a DFE_NAMEDTUPLE declaration with an empty member name, with the same
\* name twice, or with no member is rejected; every named tuple that exists
\* has at least one member and pairwise distinct non-empty names, and
\* names() returns such names.
C19_Validated ==
  nt_decl = "declared" =>
    /\ Len(nt_members) >= 1
    /\ DistinctNames(nt_members)
    /\ nt_call.outcome = "returned" => (Len(nt_names) >= 1 /\ DistinctNames(nt_names))

\* what the compiler does reject: a place of the list without a name
C19_NoEmptyName ==
  nt_decl = "declared" => \A i \in 1..Len(nt_members) : nt_members[i] # <<>>

\* C20: names() of a named tuple declared with N members returns N strings,
\* the i-th being the identifier of the i-th member listed, without white
\* space before or after it, in the order of the declaration, and the same
\* sequence on every call.
C20_Names ==
  nt_call.outcome = "returned" =>
    /\ Len(nt_names) = Len(nt_members)
    /\ \A i \in 1..Len(nt_members) : nt_names[i] = nt_members[i]
    /\ nt_names = nt_call.first

\* the same for declarations written without white space before a comma
C20_NoSpaceBeforeComma ==
  (nt_call.outcome = "returned" /\ ~nt_space.before) =>
    /\ Len(nt_names) = Len(nt_members)
    /\ \A i \in 1..Len(nt_members) : nt_names[i] = nt_members[i]
    /\ nt_names = nt_call.first

\* the file was made of lines whose last one has no newline after it
LastLineOpen == dsv_writer = "none" /\ dsv_table # NoTable /\ ~dsv_table.terminated

\* a file that is only a header line without newline cannot be opened
HeaderUnterminated ==
  (LastLineOpen /\ dsv_table.rows = <<>> /\ dsv_call.op # "none") =>
    /\ dsv_reader.state = "failed"
    /\ dsv_call.error # NoError

\* the read call that reaches a last line without newline returns false,
\* delivers nothing and does not count the line
LastLineUnterminated ==
  (LastLineOpen /\ dsv_call' # dsv_call /\ dsv_call'.op = "read"
     /\ dsv_call'.calls = Len(dsv_table.rows)) =>
    /\ ~dsv_call'.returned
    /\ dsv_got' = dsv_got
    /\ dsv_record' = dsv_record
    /\ dsv_reader'.self.m_num_records = dsv_reader.self.m_num_records

\* C28: a record is delivered only for a line that ends in a newline: the
\* read call that reaches a last line without trailing newline returns
\* false, its values are not delivered and num_records() does not count it;
\* a file that consists of a header line without newline cannot be opened.
C28_Unterminated == []HeaderUnterminated /\ [][LastLineUnterminated]_vars

\* the second line of a file was delivered and the read of its third and
\* last line, which has no newline, returned false
C28_Witness ==
  /\ LastLineOpen
  /\ dsv_reader.state = "open"
  /\ dsv_call.op = "read"
  /\ Len(dsv_table.rows) = 2
  /\ dsv_call.calls = 2
  /\ ~dsv_call.returned
  /\ Len(dsv_got) = 1
  /\ dsv_reader.self.m_line # <<>>

\* the columns of the header that carry the name
ColumnsNamed(header, name) == { i \in 1..Len(header) : header[i] = name }

\* a name of the descriptor is on more than one column of the header
NameRepeated(type, header) ==
  \E k \in 1..Len(type) : Cardinality(ColumnsNamed(header, type[k].name)) > 1

Max(S) == CHOOSE x \in S : \A y \in S : x >= y

\* C29: a reader opened in verified mode sorts the header columns by name
\* only: a member whose name is on several columns is read from the last of
\* them, no column carrying a name of the descriptor is recorded as extra,
\* and with a repeated name num_extra_columns() plus the number of members
\* is less than the number of header columns.
C29_RepeatedName ==
  (dsv_writer = "none" /\ dsv_reader.state = "open" /\ dsv_args.verify_header) =>
    LET header == dsv_table.header
        self == dsv_reader.self
    IN /\ \A k \in 1..Len(dsv_type) :
            self.m_tuple_to_column[k] = Max(ColumnsNamed(header, dsv_type[k].name))
       /\ \A e \in 1..Len(self.m_extra_columns) :
            \A k \in 1..Len(dsv_type) :
              self.m_extra_columns[e] \notin ColumnsNamed(header, dsv_type[k].name)
       /\ NameRepeated(dsv_type, header) =>
            Len(self.m_extra_columns) + Len(dsv_type) < Len(header)
       /\ (dsv_call.op = "read" /\ dsv_call.returned) =>
            \A k \in 1..Len(dsv_type) :
              dsv_record[k] =
                Extract(dsv_type[k].type,
                        dsv_table.rows[dsv_call.calls]
                          [Max(ColumnsNamed(header, dsv_type[k].name))], 0)

\* a record was read through a header that carries the name x on its first
\* and on a later column
C29_Witness ==
  /\ dsv_writer = "none"
  /\ dsv_reader.state = "open"
  /\ dsv_args.verify_header
  /\ NameRepeated(dsv_type, dsv_table.header)
  /\ dsv_call.op = "read"
  /\ dsv_call.returned
  /\ dsv_reader.self.m_tuple_to_column[1] > 1

\* a read call is made on a reader of a given file
ReadCalled == dsv_writer = "none" /\ dsv_call' # dsv_call /\ dsv_call'.op = "read"

\* a read that raises a column-count error changes neither the caller's
\* record, nor the extra vector, nor num_records(), delivers nothing, and
\* has taken its line from the file
ColumnErrorStep ==
  (ReadCalled /\ dsv_call'.error.kind \in ColumnErrors) =>
    /\ ~dsv_call'.returned
    /\ dsv_record' = dsv_record
    /\ dsv_extra' = dsv_extra
    /\ dsv_got' = dsv_got
    /\ dsv_reader'.state = "open"
    /\ dsv_reader'.self.m_num_records = dsv_reader.self.m_num_records
    /\ dsv_reader'.self.m_num_lines = dsv_reader.self.m_num_lines + 1
    /\ dsv_reader'.self.m_file.pos > dsv_reader.self.m_file.pos

\* the n-th read call works on the n-th data line of the file, whatever the
\* calls before it did
NextLineRead ==
  (ReadCalled /\ LineComplete(dsv_call'.calls + 1)) =>
    dsv_reader'.self.m_line = JoinCells(dsv_delim, dsv_table.rows[dsv_call'.calls])

\* C30: a read that raises a column-count error leaves the caller's record
\* and num_records() unchanged and has consumed the offending line: the next
\* read works on the following line of the file and can succeed, and the
\* failing line is never delivered.
C30_AfterColumnError == [][ColumnErrorStep /\ NextLineRead]_vars

\* the first data line had a wrong number of columns and the read of the
\* second line delivered its record
C30_Witness ==
  /\ dsv_writer = "none"
  /\ dsv_reader.state = "open"
  /\ dsv_call.op = "read"
  /\ dsv_call.calls = 2
  /\ dsv_call.returned
  /\ Len(dsv_got) = 1
  /\ Len(dsv_table.rows[1]) # dsv_reader.self.m_num_columns
  /\ dsv_reader.self.m_num_records = 1

\* the member of the struct is listed in DFE_NAMEDTUPLE
Listed(type, name) == \E k \in 1..Len(type) : type[k].name = name

\* a read that returns true has given the i-th listed member the i-th value
\* of the tuple and has left the member that is not listed as it was; a read
\* that returns false or raises has left the whole struct as it was
StructAssigned ==
  ReadCalled =>
    IF dsv_call'.returned
    THEN /\ \A k \in 1..Len(dsv_type) :
              \E m \in 1..Len(dsv_struct') :
                /\ dsv_struct'[m].name = dsv_type[k].name
                /\ dsv_struct'[m].value = dsv_record'[k]
         /\ \A m \in 1..Len(dsv_struct) :
              ~Listed(dsv_type, dsv_struct[m].name) => dsv_struct'[m] = dsv_struct[m]
         /\ Len(dsv_struct') = Len(dsv_struct)
    ELSE dsv_struct' = dsv_struct

\* C21: assigning a tuple to a named-tuple struct, and so every successful
\* read, sets exactly the members listed in DFE_NAMEDTUPLE, the i-th listed
\* member to the i-th tuple value, and leaves every member that is not
\* listed unchanged.
C21_ListedMembers == [][StructAssigned]_vars

\* a read delivered non-zero values to both listed members of a struct whose
\* unlisted member is declared between them
C21_Witness ==
  /\ dsv_writer = "none"
  /\ dsv_call.op = "read"
  /\ dsv_call.returned
  /\ dsv_struct[1].value # 0
  /\ dsv_struct[2] = [name |-> THIS_IS_UNUSED, value |-> 0]
  /\ dsv_struct[3].value # 0

----------------------------------------------------------------------------
(* Dispatcher *)

\* the step is a call of add, with the name it was given
AddCalled == dp_last'.op = "add"
AddOfTakenName == dp_last'.name = <<>> \/ dp_last'.name \in DOMAIN dp_commands
AddRefused ==
  /\ dp_last'.thrown.type = "std::invalid_argument"
  /\ dp_commands' = dp_commands

\* C22: add, in every overload (native interface, std::function, function
\* pointer, member function), throws std::invalid_argument when the name is
\* empty or a command of that name is registered, and leaves the registered
\* commands and their functions as they were.
C22_AddRefused == [][AddCalled /\ AddOfTakenName => AddRefused]_vars

\* the same for the overload that takes the native interface alone
C22_NativeAddRefused ==
  [][AddCalled /\ dp_last'.overload = "native" /\ AddOfTakenName => AddRefused]_vars

\* a command is registered under the empty name
C22_EmptyNameRegistered == <<>> \in DOMAIN dp_commands

\* the step is a call of call(name, args)
CallCalled == dp_last'.op = "call"
CallMatches ==
  /\ dp_last'.name \in DOMAIN dp_commands
  /\ Len(dp_last'.args) = dp_commands[dp_last'.name].nargs
CallRefused ==
  /\ dp_last'.thrown.type = "std::invalid_argument"
  /\ dp_last'.invoked = <<>>
  /\ dp_last'.called = <<>>
CallInvoked ==
  LET func == dp_commands[dp_last'.name].func
  IN /\ dp_last'.invoked = <<[func |-> func, args |-> dp_last'.args]>>
     /\ Len(dp_last'.called) <= 1
     /\ dp_last'.called \in {<<>>, <<func.target>>}
     /\ dp_last'.thrown = NoThrow
          => /\ dp_last'.called = <<func.target>>
             /\ dp_last'.result = invoke(func, dp_last'.args).result
             /\ ~func.wrapped => dp_last'.result = Joined(dp_last'.args)
     /\ dp_last'.thrown # NoThrow => dp_last'.result = <<>>

\* C23: call(name, args) throws std::invalid_argument and invokes no
\* function when no command is registered under name or when the number of
\* arguments is not the command's; otherwise it invokes the function
\* registered under name, once, with args, and returns its result.
C23_Call ==
  [][CallCalled => IF CallMatches THEN CallInvoked ELSE CallRefused]_vars

\* the native function registered under "f" with two arguments was called
\* with "4" and "x" and returned "4x"
C23_Witness ==
  /\ dp_last.op = "call"
  /\ dp_last.name = <<102>>
  /\ dp_last.args = <<<<52>>, <<120>>>>
  /\ dp_last.thrown = NoThrow
  /\ dp_last.called = <<"native">>
  /\ dp_last.result = <<52, 120>>

----------------------------------------------------------------------------
(* Variable *)

\* the value held by a Variable of a type other than Empty
Stored(v) ==
  IF v.m_type = "String" THEN Returned(TRUE, 0, v.m_string)
  ELSE Returned(TRUE, v.m_union.value, <<>>)

AsCalled == var_last'.op = "as"
AsFollows ==
  IF var_value.m_type = ConverterType(var_last'.T)
  THEN var_last'.thrown = NoThrow /\ var_last'.value = Stored(var_value)
  ELSE var_last'.thrown.type = "std::invalid_argument"
TypeFollows ==
  var_last'.op = "assign" => var_value'.m_type = var_last'.assigned.m_type

\* C24: as<T>() returns the stored value when T goes with type() (bool with
\* Boolean, an integer type with Integer, float or double with Float,
\* std::string with String) and throws std::invalid_argument for every
\* other pair, every T on an Empty variable included; after another
\* Variable was assigned, type() and as<T>() follow the assigned value.
C24_As == [][(AsCalled => AsFollows) /\ TypeFollows]_vars

\* assignment alone: type() is the type of the assigned Variable
C24_TypeAssigned == [][TypeFollows]_vars

\* as<T>() of a type that does not go with type() returned without throwing
C24_NoThrow ==
  /\ var_last.op = "as"
  /\ var_value.m_type # ConverterType(var_last.T)
  /\ var_last.thrown = NoThrow

----------------------------------------------------------------------------
(* FlatSet and FlatMap *)

\* the stored elements are strictly increasing under Compare
Increasing(m_items) ==
  \A i \in 1..(Len(m_items) - 1) : Compare(m_items[i], m_items[i + 1])

\* the positions of the stored elements equivalent to t
Equivalent(m_items, t) ==
  { i \in 1..Len(m_items) : ~Compare(m_items[i], t) /\ ~Compare(t, m_items[i]) }

InsertOrAssignStep ==
  fs_last'.op = "insert_or_assign" =>
    LET t == fs_last'.arg
    IN IF Equivalent(fs_items, t) # {}
       THEN /\ Len(fs_items') = Len(fs_items)
            /\ \A i \in 1..Len(fs_items) :
                 fs_items'[i] = IF i \in Equivalent(fs_items, t) THEN t ELSE fs_items[i]
       ELSE /\ Len(fs_items') = Len(fs_items) + 1
            /\ \E i \in 1..Len(fs_items') : fs_items'[i] = t

ContainsIsFound ==
  fs_last.op = "find" => (fs_last.contains <=> fs_last.found # Len(fs_items) + 1)

\* C25: after any insert_or_assign and clear the stored elements are
\* strictly increasing under Compare, so that no two are equivalent;
\* insert_or_assign of an element equivalent to a stored one replaces that
\* one and leaves size() alone, and otherwise size() grows by one;
\* contains(u) is true exactly when find(u) is not end().
C25_FlatSet ==
  /\ [](Increasing(fs_items) /\ ContainsIsFound)
  /\ [][InsertOrAssignStep]_vars

\* a full set whose middle element was replaced by an equivalent one of
\* another payload
C25_Witness ==
  /\ Len(fs_items) = MaxKey
  /\ fs_last.op = "insert_or_assign"
  /\ fs_last.arg = Item(2, 1)
  /\ fs_items[2] = Item(2, 1)
  /\ fs_items[1].payload = 0

\* C26: after any emplace and clear, size() is the number of different
\* keys emplaced since the last clear, contains(k) is true for exactly those
\* keys, at(k) returns the value last emplaced under k and throws
\* std::out_of_range for every other key; the stored key indices are
\* pairwise different and each is a position of the value vector.
C26_FlatMap ==
  /\ Len(fm_keys) = Cardinality(DOMAIN fm_emplaced)
  /\ \A k \in Keys :
       /\ contains(fm_keys, Key(k)) <=> k \in DOMAIN fm_emplaced
       /\ IF k \in DOMAIN fm_emplaced
          THEN map_at(FlatMap, k) =
                 [thrown |-> NoThrow, element |-> TRUE, value |-> fm_emplaced[k]]
          ELSE map_at(FlatMap, k).thrown.type = "std::out_of_range"
  /\ \A i, j \in 1..Len(fm_keys) : i # j => fm_keys[i].index # fm_keys[j].index
  /\ \A i \in 1..Len(fm_keys) : fm_keys[i].index \in 0..(Len(fm_items) - 1)

\* keys emplaced in falling order, one of them a second time with another
\* value
C26_Witness ==
  /\ Len(fm_keys) = MaxKey
  /\ fm_keys[1].index > fm_keys[2].index
  /\ fm_last.op = "emplace"
  /\ fm_last.known
  /\ fm_last.value = 1
  /\ \E k \in Keys : fm_emplaced[k] = 0

----------------------------------------------------------------------------
(* NArray *)

InBounds(idx) == \A i \in 1..NDIMENSIONS : ~LessEq(na_array.m_size[i], idx[i])

AtChecked ==
  \A idx \in Index :
    /\ at(na_array, idx).thrown.type = "std::out_of_range" <=> ~InBounds(idx)
    /\ InBounds(idx) => at(na_array, idx).thrown = NoThrow /\ at(na_array, idx).element
    /\ \A other \in Index :
         InBounds(idx) /\ InBounds(other) /\ idx # other
           => at(na_array, idx).position # at(na_array, other).position

NewIsZero ==
  na_last.op = "NArray" /\ na_last.thrown = NoThrow
    => /\ na_array.m_data.values = <<>>
       /\ \A idx \in Index :
            at(na_array, idx).element
              => ElementAt(na_array.m_data, at(na_array, idx).position) = 0

\* C27: at(idx) throws std::out_of_range exactly when idx[i] >= size()[i]
\* for some dimension i; for every index within the bounds it refers to an
\* element of the storage, different indices within the bounds refer to
\* different elements, and every element of a new array is zero.
C27_At == AtChecked /\ NewIsZero

\* the product of the sizes is below 2^64
Representable ==
  \A i, j \in 1..NDIMENSIONS : i < j => na_array.m_size[i].hi * na_array.m_size[j].hi = 0

\* the same for arrays whose number of elements is below 2^64
C27_Representable == Representable => C27_At

\* an array of 2^32 by 2^32 elements holds no element
C27_NoElement ==
  /\ ~Representable
  /\ na_array.m_data.count = size_t(0, 0)
  /\ na_last.op = "at"
  /\ na_last.thrown = NoThrow
  /\ ~na_last.element

\* an index past the last dimension alone was refused after an element was
\* assigned to
C27_Refused ==
  /\ Representable
  /\ na_array.m_data.values # <<>>
  /\ na_last.op = "at"
  /\ na_last.thrown.type = "std::out_of_range"
  /\ ~LessEq(na_array.m_size[1], na_last.idx[1])

====
